---------------------------- MODULE Spec2Model ----------------------------
(***************************************************************************)
(* USB HID class engine of usbd-human-interface-device.                    *)
(*                                                                         *)
(* The device modelled is a UsbHidClass built from three interfaces:       *)
(*   id 0  BootKeyboardInterface     (ManagedInterface<BootKeyboardReport>) *)
(*   id 1  BootMouseInterface        (RawInterface)                        *)
(*   id 2  ConsumerControlInterface  (RawInterface)                        *)
(*                                                                         *)
(* src/ holds the control dispatcher (hid_class/mod.rs) and the device     *)
(* wrappers (device/*.rs).  RawInterface, ManagedInterface and the         *)
(* interface list (crate::interface) are not part of src/; the operators   *)
(* that stand for them follow spec.md sections 3 and 4.                    *)
(***************************************************************************)
EXTENDS Integers, Sequences, FiniteSets, TLC

----------------------------------------------------------------------------
(* Bounds of the model                                                     *)

\* SetIdle rates the host sends are 0..MaxRate (4 ms units)
MaxRate == 1

\* report ids the host names in SetIdle / GetIdle are 0..MaxReportId
MaxReportId == 1

\* get_report callbacks produce 0..MaxGetReportLen bytes
MaxGetReportLen == 1

\* key sequences handed to the report builders: up to MaxKeys keys out of a few
\* (LongKeys), up to MaxMixedKeys keys out of every kind of key (MixedKeys)
MaxKeys == 8
MaxMixedKeys == 3

----------------------------------------------------------------------------
(* Program constants                                                       *)

\* enum HidRequest
GET_REPORT == 1
GET_IDLE == 2
GET_PROTOCOL == 3
SET_REPORT == 9
SET_IDLE == 10
SET_PROTOCOL == 11

\* usb_device::control::Request::GET_DESCRIPTOR
GET_DESCRIPTOR == 6

\* DescriptorType::Hid and DescriptorType::Report
DESCRIPTOR_HID == 33
DESCRIPTOR_REPORT == 34

\* SET_PROTOCOL value codes
BOOT == 0
REPORT == 1

\* idle_default(Milliseconds(500)) of both keyboards
KEYBOARD_IDLE_DEFAULT_MS == 500

\* one HID idle unit is 4 ms
IDLE_UNIT_MS == 4

\* Keyboard usage codes used by the device wrappers
NoEventIndicated == 0
ErrorRollOver == 1
POSTFail == 2
ErrorUndefine == 3
KeyA == 4
KeyB == 5
International1 == 135
International2 == 136
LeftControl == 224
LeftShift == 225
LeftAlt == 226
LeftGUI == 227
RightControl == 228
RightShift == 229
RightAlt == 230
RightGUI == 231

\* interface numbers handed out in allocation order
KEYBOARD_ID == 0
MOUSE_ID == 1
CONSUMER_ID == 2

\* UsbPacketSize
Bytes8 == 8
Bytes32 == 32

U8 == 256

Ifaces == {KEYBOARD_ID, MOUSE_ID, CONSUMER_ID}
Managed == {KEYBOARD_ID}
ReportIds == 0..MaxReportId
Rates == 0..MaxRate

----------------------------------------------------------------------------
(* Report codec: BootKeyboardReport, BootMouseReport, MultipleConsumerReport *)

DefaultKeys == [n \in 1..6 |-> NoEventIndicated]

\* BootKeyboardReport::default()
BootKeyboardReport_default ==
    [right_gui |-> FALSE, right_alt |-> FALSE, right_shift |-> FALSE,
     right_ctrl |-> FALSE, left_gui |-> FALSE, left_alt |-> FALSE,
     left_shift |-> FALSE, left_ctrl |-> FALSE, keys |-> DefaultKeys]

\* variant of BootKeyboardReport_step: a standard key that finds the slots full
\* is dropped and the slots keep the first six
BootKeyboardReport_step_truncating(st, k) ==
    CASE k = LeftControl  -> [st EXCEPT !.report.left_ctrl = TRUE]
      [] k = LeftShift    -> [st EXCEPT !.report.left_shift = TRUE]
      [] k = LeftAlt      -> [st EXCEPT !.report.left_alt = TRUE]
      [] k = LeftGUI      -> [st EXCEPT !.report.left_gui = TRUE]
      [] k = RightControl -> [st EXCEPT !.report.right_ctrl = TRUE]
      [] k = RightShift   -> [st EXCEPT !.report.right_shift = TRUE]
      [] k = RightAlt     -> [st EXCEPT !.report.right_alt = TRUE]
      [] k = RightGUI     -> [st EXCEPT !.report.right_gui = TRUE]
      [] k = NoEventIndicated -> st
      [] k \in {ErrorRollOver, POSTFail, ErrorUndefine} ->
            IF ~st.error
            THEN [report |-> [st.report EXCEPT !.keys = [n \in 1..6 |-> k]],
                  error |-> TRUE, i |-> 6]
            ELSE st
      [] OTHER ->
            IF st.error THEN st
            ELSE IF st.i < 6
            THEN [st EXCEPT !.report.keys[st.i + 1] = k, !.i = st.i + 1]
            ELSE st

\* variant of BootKeyboardReport_step: every error-code key fills the slots,
\* also when they already hold an error code
BootKeyboardReport_step_refilling(st, k) ==
    LET report == st.report IN
    CASE k = LeftControl  -> [st EXCEPT !.report.left_ctrl = TRUE]
      [] k = LeftShift    -> [st EXCEPT !.report.left_shift = TRUE]
      [] k = LeftAlt      -> [st EXCEPT !.report.left_alt = TRUE]
      [] k = LeftGUI      -> [st EXCEPT !.report.left_gui = TRUE]
      [] k = RightControl -> [st EXCEPT !.report.right_ctrl = TRUE]
      [] k = RightShift   -> [st EXCEPT !.report.right_shift = TRUE]
      [] k = RightAlt     -> [st EXCEPT !.report.right_alt = TRUE]
      [] k = RightGUI     -> [st EXCEPT !.report.right_gui = TRUE]
      [] k = NoEventIndicated -> st
      [] k \in {ErrorRollOver, POSTFail, ErrorUndefine} ->
            [report |-> [report EXCEPT !.keys = [n \in 1..6 |-> k]],
             error |-> TRUE, i |-> 6]
      [] OTHER ->
            IF st.error THEN st
            ELSE IF st.i < 6
            THEN [st EXCEPT !.report.keys[st.i + 1] = k, !.i = st.i + 1]
            ELSE [report |-> [report EXCEPT !.keys = [n \in 1..6 |-> ErrorRollOver]],
                  error |-> TRUE, i |-> 6]

\* one iteration of the for loop of BootKeyboardReport::new;
\* st = [report, error, i] are the loop's locals (i counts from 0)
BootKeyboardReport_step(st, k) ==
    LET report == st.report IN
    CASE k = LeftControl  -> [st EXCEPT !.report.left_ctrl = TRUE]
      [] k = LeftShift    -> [st EXCEPT !.report.left_shift = TRUE]
      [] k = LeftAlt      -> [st EXCEPT !.report.left_alt = TRUE]
      [] k = LeftGUI      -> [st EXCEPT !.report.left_gui = TRUE]
      [] k = RightControl -> [st EXCEPT !.report.right_ctrl = TRUE]
      [] k = RightShift   -> [st EXCEPT !.report.right_shift = TRUE]
      [] k = RightAlt     -> [st EXCEPT !.report.right_alt = TRUE]
      [] k = RightGUI     -> [st EXCEPT !.report.right_gui = TRUE]
      [] k = NoEventIndicated -> st
      [] k \in {ErrorRollOver, POSTFail, ErrorUndefine} ->
            IF ~st.error
            THEN [report |-> [report EXCEPT !.keys = [n \in 1..6 |-> k]],
                  error |-> TRUE, i |-> 6]
            ELSE st
      [] OTHER ->
            IF st.error THEN st
            ELSE IF st.i < 6
            THEN [st EXCEPT !.report.keys[st.i + 1] = k, !.i = st.i + 1]
            ELSE [report |-> [report EXCEPT !.keys = [n \in 1..6 |-> ErrorRollOver]],
                  error |-> TRUE, i |-> 6]

RECURSIVE BootKeyboardReport_loop(_, _)
BootKeyboardReport_loop(st, keys) ==
    IF keys = <<>> THEN st
    ELSE BootKeyboardReport_loop(BootKeyboardReport_step(st, Head(keys)), Tail(keys))

\* BootKeyboardReport::new(keys)
BootKeyboardReport_new(keys) ==
    BootKeyboardReport_loop(
        [report |-> BootKeyboardReport_default, error |-> FALSE, i |-> 0], keys).report

\* NKROBootKeyboardReport::default()
NKROBootKeyboardReport_default ==
    [right_gui |-> FALSE, right_alt |-> FALSE, right_shift |-> FALSE,
     right_ctrl |-> FALSE, left_gui |-> FALSE, left_alt |-> FALSE,
     left_shift |-> FALSE, left_ctrl |-> FALSE, boot_keys |-> DefaultKeys,
     nkro_keys |-> [n \in 1..17 |-> 0]]

\* byte |= 1 << bit
OrBit(byte, bit) == IF (byte \div 2^bit) % 2 = 1 THEN byte ELSE byte + 2^bit

\* variant of NkroMarkError: an error-code key leaves the bitmap alone
NkroMarkErrorNone(nkro_keys, k) == nkro_keys

\* report.nkro_keys[0] |= 1 << k as u8
NkroMarkError(nkro_keys, k) == [nkro_keys EXCEPT ![1] = OrBit(@, k)]

\* variant of NkroMark: a key is marked only while the boot array is in order
NkroMarkUntilError(st, k) ==
    IF ~st.error /\ k < 17 * 8
    THEN [st.report.nkro_keys EXCEPT ![(k \div 8) + 1] = OrBit(@, k % 8)]
    ELSE st.report.nkro_keys

\* variant of NkroMark: the bits of a byte are numbered from the top
NkroMarkReversed(st, k) ==
    IF k < 17 * 8
    THEN [st.report.nkro_keys EXCEPT ![(k \div 8) + 1] = OrBit(@, 7 - (k % 8))]
    ELSE st.report.nkro_keys

\* if (k as usize) < report.nkro_keys.len() * 8 { nkro_keys[k / 8] |= 1 << (k % 8) }
NkroMark(st, k) ==
    IF k < 17 * 8
    THEN [st.report.nkro_keys EXCEPT ![(k \div 8) + 1] = OrBit(@, k % 8)]
    ELSE st.report.nkro_keys

\* one iteration of the for loop of NKROBootKeyboardReport::new;
\* st = [report, error, i]: error is boot_keys_error, i counts from 0
NKROBootKeyboardReport_step(st, k) ==
    LET report == st.report IN
    CASE k = LeftControl  -> [st EXCEPT !.report.left_ctrl = TRUE]
      [] k = LeftShift    -> [st EXCEPT !.report.left_shift = TRUE]
      [] k = LeftAlt      -> [st EXCEPT !.report.left_alt = TRUE]
      [] k = LeftGUI      -> [st EXCEPT !.report.left_gui = TRUE]
      [] k = RightControl -> [st EXCEPT !.report.right_ctrl = TRUE]
      [] k = RightShift   -> [st EXCEPT !.report.right_shift = TRUE]
      [] k = RightAlt     -> [st EXCEPT !.report.right_alt = TRUE]
      [] k = RightGUI     -> [st EXCEPT !.report.right_gui = TRUE]
      [] k = NoEventIndicated -> st
      [] k \in {ErrorRollOver, POSTFail, ErrorUndefine} ->
            LET marked == [report EXCEPT !.nkro_keys = NkroMarkError(report.nkro_keys, k)] IN
            IF ~st.error
            THEN [report |-> [marked EXCEPT !.boot_keys = [n \in 1..6 |-> k]],
                  error |-> TRUE, i |-> 6]
            ELSE [st EXCEPT !.report = marked]
      [] OTHER ->
            LET marked == [report EXCEPT !.nkro_keys = NkroMark(st, k)] IN
            IF st.error THEN [st EXCEPT !.report = marked]
            ELSE IF st.i < 6
            THEN [report |-> [marked EXCEPT !.boot_keys[st.i + 1] = k],
                  error |-> FALSE, i |-> st.i + 1]
            ELSE [report |-> [marked EXCEPT !.boot_keys = [n \in 1..6 |-> ErrorRollOver]],
                  error |-> TRUE, i |-> 6]

RECURSIVE NKROBootKeyboardReport_loop(_, _)
NKROBootKeyboardReport_loop(st, keys) ==
    IF keys = <<>> THEN st
    ELSE NKROBootKeyboardReport_loop(NKROBootKeyboardReport_step(st, Head(keys)),
                                     Tail(keys))

\* variant of NKROBootKeyboardReport_new: the first standard key goes to the
\* second slot
NKROBootKeyboardReport_new_from_one(keys) ==
    NKROBootKeyboardReport_loop(
        [report |-> NKROBootKeyboardReport_default, error |-> FALSE, i |-> 1], keys).report

\* NKROBootKeyboardReport::new(keys)
NKROBootKeyboardReport_new(keys) ==
    NKROBootKeyboardReport_loop(
        [report |-> NKROBootKeyboardReport_default, error |-> FALSE, i |-> 0], keys).report

Bit(b, n) == IF b THEN 2^n ELSE 0

\* variant of BootKeyboardReport_pack: the keys follow the modifier byte at once
BootKeyboardReport_pack_no_reserved(r) ==
    << Bit(r.right_gui, 7) + Bit(r.right_alt, 6) + Bit(r.right_shift, 5)
       + Bit(r.right_ctrl, 4) + Bit(r.left_gui, 3) + Bit(r.left_alt, 2)
       + Bit(r.left_shift, 1) + Bit(r.left_ctrl, 0) >> \o r.keys \o << 0 >>

\* variant of BootKeyboardReport_pack: lsb0 bit numbering in the modifier byte
BootKeyboardReport_pack_lsb0(r) ==
    << Bit(r.right_gui, 0) + Bit(r.right_alt, 1) + Bit(r.right_shift, 2)
       + Bit(r.right_ctrl, 3) + Bit(r.left_gui, 4) + Bit(r.left_alt, 5)
       + Bit(r.left_shift, 6) + Bit(r.left_ctrl, 7),
       0 >> \o r.keys

\* BootKeyboardReport::pack(): msb0 bit numbering, bit "0" is the top bit of
\* byte 0; byte 1 belongs to no field; bytes 2..8 are the keys
BootKeyboardReport_pack(r) ==
    << Bit(r.right_gui, 7) + Bit(r.right_alt, 6) + Bit(r.right_shift, 5)
       + Bit(r.right_ctrl, 4) + Bit(r.left_gui, 3) + Bit(r.left_alt, 2)
       + Bit(r.left_shift, 1) + Bit(r.left_ctrl, 0),
       0 >> \o r.keys

\* NKROBootKeyboardReport::pack(): as the boot report, then nkro_keys in bytes 8..25
NKROBootKeyboardReport_pack(r) ==
    << Bit(r.right_gui, 7) + Bit(r.right_alt, 6) + Bit(r.right_shift, 5)
       + Bit(r.right_ctrl, 4) + Bit(r.left_gui, 3) + Bit(r.left_alt, 2)
       + Bit(r.left_shift, 1) + Bit(r.left_ctrl, 0),
       0 >> \o r.boot_keys \o r.nkro_keys

\* variant of I8Byte: the magnitude of the value, the sign dropped
I8ByteMagnitude(v) == IF v < 0 THEN 0 - v ELSE v

\* i8 as a byte in two's complement
I8Byte(v) == (v + U8) % U8

\* variant of ByteI8: the byte read as an unsigned number
ByteI8Unsigned(b) == b

\* a byte as i8 in two's complement
ByteI8(b) == IF b >= 128 THEN b - U8 ELSE b

\* bit n of a byte as a bool
TestBit(b, n) == (b \div 2^n) % 2 = 1

\* results of unpack
Unpacked(value) == [ok |-> TRUE, value |-> value, err |-> ""]
UnpackError == [ok |-> FALSE, value |-> <<>>, err |-> "ParseError"]

\* usage codes that are values of the enums Keyboard and Consumer
KeyboardUsages == 0..164 \cup 224..231
ConsumerUsages == 0..668

\* BootMouseReport::pack(): buttons, x, y
BootMouseReport_pack(r) == << r.buttons, I8Byte(r.x), I8Byte(r.y) >>

\* KeyboardLedsReport::pack(): lsb0 bit numbering, one byte
KeyboardLedsReport_pack(r) ==
    << Bit(r.num_lock, 0) + Bit(r.caps_lock, 1) + Bit(r.scroll_lock, 2)
       + Bit(r.compose, 3) + Bit(r.kana, 4) >>

\* variant of KeyboardLedsReport_unpack: msb0 bit numbering
KeyboardLedsReport_unpack_msb0(data) ==
    IF Len(data) # 1 THEN UnpackError
    ELSE Unpacked([num_lock |-> TestBit(data[1], 7), caps_lock |-> TestBit(data[1], 6),
                   scroll_lock |-> TestBit(data[1], 5), compose |-> TestBit(data[1], 4),
                   kana |-> TestBit(data[1], 3)])

\* KeyboardLedsReport::unpack(data)
KeyboardLedsReport_unpack(data) ==
    IF Len(data) # 1 THEN UnpackError
    ELSE Unpacked([num_lock |-> TestBit(data[1], 0), caps_lock |-> TestBit(data[1], 1),
                   scroll_lock |-> TestBit(data[1], 2), compose |-> TestBit(data[1], 3),
                   kana |-> TestBit(data[1], 4)])

\* BootKeyboardReport::unpack(data)
BootKeyboardReport_unpack(data) ==
    IF Len(data) # 8 THEN UnpackError
    ELSE IF \E n \in 3..8 : data[n] \notin KeyboardUsages THEN UnpackError
    ELSE Unpacked([right_gui |-> TestBit(data[1], 7), right_alt |-> TestBit(data[1], 6),
                   right_shift |-> TestBit(data[1], 5), right_ctrl |-> TestBit(data[1], 4),
                   left_gui |-> TestBit(data[1], 3), left_alt |-> TestBit(data[1], 2),
                   left_shift |-> TestBit(data[1], 1), left_ctrl |-> TestBit(data[1], 0),
                   keys |-> SubSeq(data, 3, 8)])

\* NKROBootKeyboardReport::unpack(data)
NKROBootKeyboardReport_unpack(data) ==
    IF Len(data) # 25 THEN UnpackError
    ELSE IF \E n \in 3..8 : data[n] \notin KeyboardUsages THEN UnpackError
    ELSE Unpacked([right_gui |-> TestBit(data[1], 7), right_alt |-> TestBit(data[1], 6),
                   right_shift |-> TestBit(data[1], 5), right_ctrl |-> TestBit(data[1], 4),
                   left_gui |-> TestBit(data[1], 3), left_alt |-> TestBit(data[1], 2),
                   left_shift |-> TestBit(data[1], 1), left_ctrl |-> TestBit(data[1], 0),
                   boot_keys |-> SubSeq(data, 3, 8),
                   nkro_keys |-> SubSeq(data, 9, 25)])

\* BootMouseReport::unpack(data)
BootMouseReport_unpack(data) ==
    IF Len(data) # 3 THEN UnpackError
    ELSE Unpacked([buttons |-> data[1], x |-> ByteI8(data[2]), y |-> ByteI8(data[3])])

\* variant of WheelMouseReport_pack: the pan byte is left out
WheelMouseReport_pack_no_pan(r) ==
    << r.buttons, I8Byte(r.x), I8Byte(r.y), I8Byte(r.vertical_wheel) >>

\* WheelMouseReport::pack(): buttons, x, y, vertical_wheel, horizontal_wheel
WheelMouseReport_pack(r) ==
    << r.buttons, I8Byte(r.x), I8Byte(r.y), I8Byte(r.vertical_wheel),
       I8Byte(r.horizontal_wheel) >>

\* WheelMouseReport::unpack(data)
WheelMouseReport_unpack(data) ==
    IF Len(data) # 5 THEN UnpackError
    ELSE Unpacked([buttons |-> data[1], x |-> ByteI8(data[2]), y |-> ByteI8(data[3]),
                   vertical_wheel |-> ByteI8(data[4]),
                   horizontal_wheel |-> ByteI8(data[5])])

\* FixedFunctionReport::pack(): lsb0 bit numbering, one byte
FixedFunctionReport_pack(r) ==
    << Bit(r.next, 0) + Bit(r.previous, 1) + Bit(r.stop, 2) + Bit(r.play_pause, 3)
       + Bit(r.mute, 4) + Bit(r.volume_increment, 5) + Bit(r.volume_decrement, 6) >>

\* FixedFunctionReport::unpack(data)
FixedFunctionReport_unpack(data) ==
    IF Len(data) # 1 THEN UnpackError
    ELSE Unpacked([next |-> TestBit(data[1], 0), previous |-> TestBit(data[1], 1),
                   stop |-> TestBit(data[1], 2), play_pause |-> TestBit(data[1], 3),
                   mute |-> TestBit(data[1], 4),
                   volume_increment |-> TestBit(data[1], 5),
                   volume_decrement |-> TestBit(data[1], 6)])

\* MultipleConsumerReport::unpack(data): four u16 codes, each low byte first
MultipleConsumerReport_unpack(data) ==
    IF Len(data) # 8 THEN UnpackError
    ELSE LET codes == [n \in 1..4 |-> data[2 * n - 1] + U8 * data[2 * n]] IN
         IF \E n \in 1..4 : codes[n] \notin ConsumerUsages THEN UnpackError
         ELSE Unpacked([codes |-> codes])

\* variant of MultipleConsumerReport_pack: each code high byte first
MultipleConsumerReport_pack_msb(r) ==
    << r.codes[1] \div U8, r.codes[1] % U8, r.codes[2] \div U8, r.codes[2] % U8,
       r.codes[3] \div U8, r.codes[3] % U8, r.codes[4] \div U8, r.codes[4] % U8 >>

\* MultipleConsumerReport::pack(): four u16 codes, each low byte first
MultipleConsumerReport_pack(r) ==
    << r.codes[1] % U8, r.codes[1] \div U8, r.codes[2] % U8, r.codes[2] \div U8,
       r.codes[3] % U8, r.codes[3] \div U8, r.codes[4] % U8, r.codes[4] \div U8 >>

----------------------------------------------------------------------------
(* State                                                                   *)

VARIABLES
    idle,         \* [Ifaces -> [ReportIds -> byte]]: idle-rate table of each interface
    protocol,     \* [Ifaces -> {"Boot", "Report"}]: protocol mode of each interface
    last_report,  \* [Managed -> <<>> or <<report>>]: cached last-sent report
    countdown,    \* [Managed -> Nat]: ticks left until the next idle retransmission
    in_ep,        \* [Ifaces -> bytes]: packet waiting in the IN endpoint, <<>> if flushed
    xfer,         \* the control transfer in flight on the control endpoint
    ret,          \* what the last write_report / tick call returned to the firmware
    last,         \* the operation that ran last
    since,        \* history: ticks since the keyboard's last transmission, counted
                  \*          while stable and the idle rate is not 0
    stable,       \* history: keyboard idle table unchanged and no retransmission failed
                  \*          since the keyboard's last transmission
    period,       \* history: ticks between the keyboard's last two transmissions if
                  \*          the second was an idle retransmission and stable held in
                  \*          between, -1 otherwise
    written,      \* history: <<keys>> of the keyboard's last successful write_report
    host_idle,    \* history: [Ifaces -> [ReportIds -> rate]] of the last SetIdle the
                  \*          host got acknowledged, -1 where none since reset
    host_protocol,\* history: [Ifaces -> code] of the last SetProtocol the host got
                  \*          acknowledged, -1 where none since reset
    undone,       \* history: a reset has changed an idle rate or a protocol mode,
                  \*          and nothing but ticks has run since
    panicked      \* the firmware has aborted in a panic

vars == << idle, protocol, last_report, countdown, in_ep, xfer, ret, last,
           since, stable, period, written, host_idle, host_protocol, undone,
           panicked >>

hostView == << host_idle, host_protocol >>

timerView == << since, stable, period >>

ifaceState == << idle, protocol, last_report, countdown, in_ep >>

----------------------------------------------------------------------------
(* Interfaces (crate::interface, described by spec.md 3, 4.2, 4.3, 4.4)    *)

\* RawInterfaceBuilder::idle_default(Milliseconds(ms)): the table holds 4 ms units
idle_default(ms) == ms \div IDLE_UNIT_MS

\* variant of DefaultIdle: no default_config() sets an idle default
DefaultIdleNone(i) == 0

\* default idle rate of each device's default_config()
DefaultIdle(i) ==
    IF i = KEYBOARD_ID THEN idle_default(KEYBOARD_IDLE_DEFAULT_MS) ELSE 0

\* NKROBootKeyboardInterface::default_config(): idle_default(Milliseconds(500))
NKRO_IDLE_DEFAULT_MS == 500
NKROBootKeyboardInterface_default_idle == idle_default(NKRO_IDLE_DEFAULT_MS)

\* HidProtocol as u8
HidProtocol_as_u8(p) == IF p = "Boot" THEN 0 ELSE 1

\* InterfaceClass::set_idle / get_idle on one interface's table
set_idle(table, report_id, value) ==
    [rid \in DOMAIN table |-> IF rid = report_id THEN value ELSE table[rid]]

get_idle(table, report_id) == table[report_id]

\* InterfaceHList::get_id / get_id_mut: the interface whose id() is id, or None (-1)
get_id_mut(id) == IF id \in Ifaces THEN id ELSE -1

BOOT_KEYBOARD_REPORT_DESCRIPTOR ==
    << 5, 1, 9, 6, 161, 1, 117, 1, 149, 8, 5, 7, 25, 224, 41, 231, 21, 0, 37, 1,
       129, 2, 149, 1, 117, 8, 129, 1, 149, 5, 117, 1, 5, 8, 25, 1, 41, 5, 145, 2,
       149, 1, 117, 3, 145, 1, 149, 6, 117, 8, 21, 0, 38, 255, 0, 5, 7, 25, 0,
       42, 255, 0, 129, 0, 192 >>

BOOT_MOUSE_REPORT_DESCRIPTOR ==
    << 5, 1, 9, 2, 161, 1, 9, 1, 161, 0, 149, 3, 117, 1, 5, 9, 25, 1, 41, 3,
       21, 0, 37, 1, 129, 2, 149, 1, 117, 5, 129, 1, 117, 8, 149, 2, 5, 1, 9, 48,
       9, 49, 21, 129, 37, 127, 129, 6, 192, 192 >>

MULTIPLE_CODE_REPORT_DESCRIPTOR ==
    << 5, 12, 9, 1, 161, 1, 117, 16, 149, 4, 21, 0, 38, 156, 2, 25, 0,
       42, 156, 2, 129, 0, 192 >>

NKRO_BOOT_KEYBOARD_REPORT_DESCRIPTOR ==
    << 5, 1, 9, 6, 161, 1, 117, 1, 149, 8, 5, 7, 25, 224, 41, 231, 21, 0, 37, 1,
       129, 2, 117, 56, 149, 1, 129, 1, 149, 5, 117, 1, 5, 8, 25, 1, 41, 5, 145, 2,
       149, 1, 117, 3, 145, 3, 149, 136, 117, 1, 21, 0, 37, 1, 5, 7, 25, 0, 41, 135,
       129, 2, 192 >>

WHEEL_MOUSE_REPORT_DESCRIPTOR ==
    << 5, 1, 9, 2, 161, 1, 9, 1, 161, 0, 149, 8, 117, 1, 5, 9, 25, 1, 41, 8,
       21, 0, 37, 1, 129, 2, 117, 8, 149, 2, 5, 1, 9, 48, 9, 49, 21, 129, 37, 127,
       129, 6, 21, 129, 37, 127, 9, 56, 117, 8, 149, 1, 129, 6, 5, 12, 10, 56, 2,
       149, 1, 129, 6, 192, 192 >>

FIXED_FUNCTION_REPORT_DESCRIPTOR ==
    << 5, 12, 9, 1, 161, 1, 5, 12, 21, 0, 37, 1, 117, 1, 149, 7, 9, 181, 9, 182,
       9, 183, 9, 205, 9, 226, 9, 233, 9, 234, 129, 2, 149, 1, 129, 1, 192 >>

\* the report lengths a report descriptor declares: a walk over its short
\* items; Report Size (0x74) and Report Count (0x94) are kept, each Input
\* (0x80) and Output (0x90) item adds size * count bits
ItemDataLen(prefix) == IF prefix % 4 = 3 THEN 4 ELSE prefix % 4

RECURSIVE ItemData(_, _, _)
ItemData(d, at, n) == IF n = 0 THEN 0 ELSE d[at] + U8 * ItemData(d, at + 1, n - 1)

RECURSIVE DeclaredBits(_, _, _)
DeclaredBits(d, at, st) ==
    IF at > Len(d) THEN st
    ELSE LET n == ItemDataLen(d[at])
             tag == d[at] - (d[at] % 4)
             v == ItemData(d, at + 1, n)
         IN  DeclaredBits(d, at + 1 + n,
                 CASE tag = 116 -> [st EXCEPT !.size = v]
                   [] tag = 148 -> [st EXCEPT !.count = v]
                   [] tag = 128 -> [st EXCEPT !.input = @ + st.size * st.count]
                   [] tag = 144 -> [st EXCEPT !.output = @ + st.size * st.count]
                   [] OTHER -> st)

DeclaredLengths(d) ==
    LET st == DeclaredBits(d, 1, [size |-> 0, count |-> 0, input |-> 0, output |-> 0])
    IN  [input |-> st.input \div 8, input_rest |-> st.input % 8,
         output |-> st.output \div 8, output_rest |-> st.output % 8]

\* InterfaceClass::report_descriptor(): the bytes RawInterfaceBuilder::new was given
report_descriptor(i) ==
    CASE i = KEYBOARD_ID -> BOOT_KEYBOARD_REPORT_DESCRIPTOR
      [] i = MOUSE_ID    -> BOOT_MOUSE_REPORT_DESCRIPTOR
      [] OTHER           -> MULTIPLE_CODE_REPORT_DESCRIPTOR

\* InterfaceClass::hid_descriptor_body(): 7 bytes, the last two the length of the
\* report descriptor, low byte first
hid_descriptor_body(i) ==
    << 17, 1, 0, 1, DESCRIPTOR_REPORT,
       Len(report_descriptor(i)) % U8, Len(report_descriptor(i)) \div U8 >>

\* the bytes a get_report callback that returns Ok(n) leaves in data[..n]
ReportBytes(n) == [k \in 1..n |-> k]

----------------------------------------------------------------------------
(* Control transfers                                                       *)

NoEnv ==
    [data |-> <<>>, set_report_ok |-> TRUE, get_report_n |-> 0, accept_ok |-> TRUE,
     ack_ok |-> TRUE]

Req(dir, ty, rcpt, code, value, index, length) ==
    [direction |-> dir, request_type |-> ty, recipient |-> rcpt, request |-> code,
     value |-> value, index |-> index, length |-> length]

NoXfer ==
    [stage |-> "none", req |-> Req("Out", "Standard", "Device", 0, 0, 0, 0),
     env |-> NoEnv, calls |-> <<>>, delivered |-> <<>>, status |-> "unanswered",
     reply |-> <<>>]

\* interface numbers the host addresses: the keyboard and the mouse, and two
\* that name no interface: the first id past the registry, and an index above
\* 255 whose low byte is the mouse's id
Known == {KEYBOARD_ID, MOUSE_ID}
Unknown == {Cardinality(Ifaces), U8 + MOUSE_ID}
Indexes == Known \cup Unknown

Lengths == {0, 1}

\* wValue = (high << 8) | low
Value(high, low) == high * U8 + low

\* <<index, report id>> pairs of the host's SetIdle / GetIdle: report 0 of the
\* keyboard, every report id of the mouse, report 0 of the unknown indexes
IdleTargets ==
    {<<KEYBOARD_ID, 0>>} \cup {<<MOUSE_ID, rid>> : rid \in ReportIds}
    \cup {<<x, 0>> : x \in Unknown}

\* SetProtocol values: low byte Boot, Report or unsupported, high byte 0 or set
ProtocolValues == {Value(high, low) : high \in {0, 1}, low \in {BOOT, REPORT, REPORT + 1}}

\* what the interface's get_report callback and the control pipe will answer to
\* a GetReport: get_report fails (-1) or gives n bytes, accept_with and
\* get_report_ack succeed or fail (each looked at only if it is reached)
GetReportEnvs ==
    {[data |-> <<>>, set_report_ok |-> TRUE, get_report_n |-> n, accept_ok |-> a,
      ack_ok |-> k] :
        n \in -1..MaxGetReportLen, a \in BOOLEAN, k \in BOOLEAN}

GetReportEnvsReached ==
    {e \in GetReportEnvs : /\ e.get_report_n = -1 => e.accept_ok
                           /\ ~e.accept_ok => e.ack_ok}

\* payloads of the host's SetReport: keyboard LED bytes (Num Lock, Caps Lock)
SetReportPayloads == { <<1>>, <<2>> }

\* Class requests to an Interface recipient, host to device
ClassOutTransfers ==
    {[req |-> Req("Out", "Class", "Interface", SET_IDLE, Value(rate, t[2]), t[1], l),
      env |-> NoEnv] :
        rate \in Rates, t \in IdleTargets, l \in Lengths}
    \cup
    {[req |-> Req("Out", "Class", "Interface", SET_PROTOCOL, v, x, l), env |-> NoEnv] :
        v \in ProtocolValues, x \in Known, l \in Lengths}
    \cup
    {[req |-> Req("Out", "Class", "Interface", SET_PROTOCOL, Value(0, BOOT), x, 0),
      env |-> NoEnv] : x \in Unknown}
    \cup
    {[req |-> Req("Out", "Class", "Interface", SET_REPORT, Value(2, 0), x, 1),
      env |-> [NoEnv EXCEPT !.data = d, !.set_report_ok = ok]] :
        x \in Known, d \in SetReportPayloads, ok \in BOOLEAN}
    \cup
    {[req |-> Req("Out", "Class", "Interface", SET_REPORT, Value(2, 0), x, 1),
      env |-> [NoEnv EXCEPT !.data = <<1>>]] : x \in Unknown}
    \cup
    {[req |-> Req("Out", "Class", "Interface", code, Value(1, 0), x, 0), env |-> NoEnv] :
        code \in {GET_REPORT, GET_DESCRIPTOR}, x \in Indexes}

\* host to device transfers that are not Class requests to an Interface
OtherOutTransfers ==
    {[req |-> Req("Out", tr[1], tr[2], code, Value(1, 0), x, 0), env |-> NoEnv] :
        tr \in {<<"Standard", "Interface">>, <<"Vendor", "Interface">>,
                <<"Class", "Device">>, <<"Class", "Endpoint">>,
                <<"Standard", "Device">>},
        code \in {SET_REPORT, SET_IDLE, SET_PROTOCOL},
        x \in Known}

OutTransfers == ClassOutTransfers \cup OtherOutTransfers

\* Standard requests to an Interface recipient, device to host: GET_DESCRIPTOR
\* and GET_STATUS (0), for the Hid and Report descriptors and for one that is
\* neither (Physical, 0x23)
StandardInTransfers ==
    {[req |-> Req("In", "Standard", "Interface", code, Value(ty, 0), x, 64), env |-> NoEnv] :
        code \in {GET_DESCRIPTOR, 0},
        ty \in {DESCRIPTOR_HID, DESCRIPTOR_REPORT, DESCRIPTOR_REPORT + 1},
        x \in Indexes}

\* Class requests to an Interface recipient, device to host
ClassInTransfers ==
    {[req |-> Req("In", "Class", "Interface", GET_IDLE, Value(0, t[2]), t[1], l),
      env |-> NoEnv] :
        t \in IdleTargets, l \in Lengths}
    \cup
    {[req |-> Req("In", "Class", "Interface", GET_PROTOCOL, 0, x, l), env |-> NoEnv] :
        x \in Indexes, l \in Lengths}
    \cup
    {[req |-> Req("In", "Class", "Interface", GET_REPORT, Value(1, 0), x, l), env |-> e] :
        x \in Known, l \in Lengths, e \in GetReportEnvsReached}
    \cup
    {[req |-> Req("In", "Class", "Interface", GET_REPORT, Value(1, 0), x, 1),
      env |-> [NoEnv EXCEPT !.get_report_n = 1]] : x \in Unknown}
    \cup
    {[req |-> Req("In", "Class", "Interface", code, Value(1, 0), x, 1), env |-> NoEnv] :
        code \in {SET_IDLE, GET_DESCRIPTOR}, x \in Indexes}

\* device to host transfers with another request type or recipient
OtherInTransfers ==
    {[req |-> Req("In", tr[1], tr[2], code, Value(DESCRIPTOR_REPORT, 0), x, 1), env |-> NoEnv] :
        tr \in {<<"Vendor", "Interface">>, <<"Class", "Device">>,
                <<"Standard", "Device">>, <<"Class", "Endpoint">>},
        code \in {GET_DESCRIPTOR, GET_IDLE, GET_PROTOCOL},
        x \in Known}

InTransfers == StandardInTransfers \cup ClassInTransfers \cup OtherInTransfers

Transfers == OutTransfers \cup InTransfers

----------------------------------------------------------------------------
(* Control dispatcher: UsbHidClass::control_out / control_in / get_descriptor *)

\* what one call of a handler does: the interface state it leaves, the calls it
\* made on the interface and on the transfer, and the answer the transfer got
Outcome(idl, prot, calls, status, reply, panic) ==
    [idle |-> idl, protocol |-> prot, calls |-> calls, delivered |-> <<>>,
     status |-> status, reply |-> reply, panic |-> panic]

\* the handler returns without touching the interface or the transfer
Ignored(idl, prot) == Outcome(idl, prot, <<>>, "unanswered", <<>>, FALSE)

\* transfer.accept() / transfer.accept_with(data): answered unless the pipe refuses
Accepted(env) == IF env.accept_ok THEN "accepted" ELSE "unanswered"

\* variant of u8_try_from: `request.index as u8`, which keeps the low byte
u8_truncate(index) == index % U8

\* u8::try_from(request.index).ok(): None (-1) for an index above 255
u8_try_from(index) == IF index < U8 THEN index ELSE -1

\* variant of ControlOutAddressed: either condition alone lets the request through
ControlOutAddressedEither(request) ==
    request.request_type = "Class" \/ request.recipient = "Interface"

\* control_out: only Class requests to an Interface recipient are looked at
ControlOutAddressed(request) ==
    request.request_type = "Class" /\ request.recipient = "Interface"

\* control_out: the interface the request's index names, or None (-1)
ControlOutInterface(request) ==
    LET id == u8_try_from(request.index) IN
    IF id = -1 THEN -1 ELSE get_id_mut(id)

\* variant of SetIdleArgs: the two bytes of the value taken the other way round
SetIdleArgsSwapped(value) == [report_id |-> value \div U8, value |-> value % U8]

\* SET_IDLE arm: the arguments handed to set_idle
SetIdleArgs(value) == [report_id |-> value % U8, value |-> value \div U8]

\* variant of SetProtocolArg: every low byte other than Boot selects Report
SetProtocolArgElseReport(value) ==
    IF value % U8 = BOOT THEN "Boot" ELSE "Report"

\* variant of SetProtocolArg: the whole 16-bit value is matched, not its low byte
SetProtocolArgWholeValue(value) ==
    CASE value = BOOT   -> "Boot"
      [] value = REPORT -> "Report"
      [] OTHER          -> "Unsupported"

\* SET_PROTOCOL arm: the protocol the value's low byte selects, if any
SetProtocolArg(value) ==
    CASE value % U8 = BOOT   -> "Boot"
      [] value % U8 = REPORT -> "Report"
      [] OTHER               -> "Unsupported"

\* variant of SetReportArm: the transfer is acknowledged only if set_report
\* returned Ok
SetReportArmChecked(env, idl, prot) ==
    IF env.set_report_ok
    THEN [Outcome(idl, prot, <<"set_report", "accept">>, Accepted(env), <<>>, FALSE)
             EXCEPT !.delivered = << env.data >>]
    ELSE [Outcome(idl, prot, <<"set_report">>, "unanswered", <<>>, FALSE)
             EXCEPT !.delivered = << env.data >>]

\* SET_REPORT arm: set_report(transfer.data()).ok(), then transfer.accept().ok()
SetReportArm(env, idl, prot) ==
    [Outcome(idl, prot, <<"set_report", "accept">>, Accepted(env), <<>>, FALSE)
        EXCEPT !.delivered = << env.data >>]

\* variant of ControlOutUnsupported: the request is rejected
ControlOutUnsupportedRejected(idl, prot) ==
    Outcome(idl, prot, <<"reject">>, "rejected", <<>>, FALSE)

\* control_out, default arm: a warning is logged, nothing else
ControlOutUnsupported(idl, prot) == Ignored(idl, prot)

\* UsbHidClass::control_out(transfer)
ControlOutOutcome(request, env, idl, prot) ==
    IF ~ControlOutAddressed(request) THEN Ignored(idl, prot)
    ELSE LET interface == ControlOutInterface(request) IN
    IF interface = -1 THEN Ignored(idl, prot)
    ELSE CASE request.request = SET_REPORT -> SetReportArm(env, idl, prot)
           [] request.request = SET_IDLE ->
                LET a == SetIdleArgs(request.value) IN
                Outcome([idl EXCEPT ![interface] = set_idle(@, a.report_id, a.value)],
                        prot, <<"set_idle", "accept">>, Accepted(env), <<>>, FALSE)
           [] request.request = SET_PROTOCOL ->
                LET p == SetProtocolArg(request.value) IN
                IF p = "Unsupported" THEN Ignored(idl, prot)
                ELSE Outcome(idl, [prot EXCEPT ![interface] = p],
                             <<"set_protocol", "accept">>, Accepted(env), <<>>, FALSE)
           [] OTHER -> ControlOutUnsupported(idl, prot)

\* variant of HidDescriptor: byte 0 holds the length of the body alone
HidDescriptorBodyLength(body) == << Len(body), DESCRIPTOR_HID >> \o body

\* get_descriptor, HID arm: the 9-byte buffer [len, DescriptorType::Hid, body..]
HidDescriptor(body) == << 9, DESCRIPTOR_HID >> \o body

\* UsbHidClass::get_descriptor(transfer, interface)
get_descriptor(request, env, interface, idl, prot) ==
    CASE request.value \div U8 = DESCRIPTOR_REPORT ->
            Outcome(idl, prot, <<"report_descriptor", "accept_with">>, Accepted(env),
                    IF env.accept_ok THEN report_descriptor(interface) ELSE <<>>, FALSE)
      [] request.value \div U8 = DESCRIPTOR_HID ->
            Outcome(idl, prot, <<"hid_descriptor_body", "accept_with">>, Accepted(env),
                    IF env.accept_ok
                    THEN HidDescriptor(hid_descriptor_body(interface))
                    ELSE <<>>, FALSE)
      [] OTHER -> Ignored(idl, prot)

\* variant of GetReportArm: get_report_ack is called whether or not the
\* transfer was accepted
GetReportArmAckAlways(env, idl, prot) ==
    IF env.get_report_n = -1
    THEN Outcome(idl, prot, <<"get_report">>, "unanswered", <<>>, FALSE)
    ELSE Outcome(idl, prot, <<"get_report", "accept_with", "get_report_ack">>,
                 Accepted(env),
                 IF env.accept_ok THEN ReportBytes(env.get_report_n) ELSE <<>>,
                 ~env.ack_ok)

\* control_in, GET_REPORT arm; get_report_ack().unwrap() panics on an Err
GetReportArm(env, idl, prot) ==
    IF env.get_report_n = -1
    THEN Outcome(idl, prot, <<"get_report">>, "unanswered", <<>>, FALSE)
    ELSE IF ~env.accept_ok
    THEN Outcome(idl, prot, <<"get_report", "accept_with">>, "unanswered", <<>>, FALSE)
    ELSE Outcome(idl, prot, <<"get_report", "accept_with", "get_report_ack">>,
                 "accepted", ReportBytes(env.get_report_n), ~env.ack_ok)

\* variant of ControlInClass: GET_IDLE clears the entry it has read and
\* GET_PROTOCOL puts the interface back to Report
ControlInClassClearing(request, env, interface, idl, prot) ==
    CASE request.request = GET_REPORT -> GetReportArm(env, idl, prot)
      [] request.request = GET_IDLE ->
            Outcome([idl EXCEPT ![interface] = set_idle(@, request.value % U8, 0)],
                    prot, <<"get_idle", "accept_with">>, Accepted(env),
                    IF env.accept_ok
                    THEN << get_idle(idl[interface], request.value % U8) >> ELSE <<>>,
                    FALSE)
      [] request.request = GET_PROTOCOL ->
            Outcome(idl, [prot EXCEPT ![interface] = "Report"],
                    <<"get_protocol", "accept_with">>, Accepted(env),
                    IF env.accept_ok
                    THEN << HidProtocol_as_u8(prot[interface]) >> ELSE <<>>,
                    FALSE)
      [] OTHER -> Ignored(idl, prot)

\* variant of ControlInClass: a GET_IDLE or GET_PROTOCOL whose length is not 1
\* is left unanswered
ControlInClassStrict(request, env, interface, idl, prot) ==
    CASE request.request = GET_REPORT -> GetReportArm(env, idl, prot)
      [] request.request = GET_IDLE /\ request.length = 1 ->
            Outcome(idl, prot, <<"get_idle", "accept_with">>, Accepted(env),
                    IF env.accept_ok
                    THEN << get_idle(idl[interface], request.value % U8) >> ELSE <<>>,
                    FALSE)
      [] request.request = GET_PROTOCOL /\ request.length = 1 ->
            Outcome(idl, prot, <<"get_protocol", "accept_with">>, Accepted(env),
                    IF env.accept_ok
                    THEN << HidProtocol_as_u8(prot[interface]) >> ELSE <<>>,
                    FALSE)
      [] OTHER -> Ignored(idl, prot)

\* control_in, Class arm: GET_REPORT, GET_IDLE, GET_PROTOCOL
ControlInClass(request, env, interface, idl, prot) ==
    CASE request.request = GET_REPORT -> GetReportArm(env, idl, prot)
      [] request.request = GET_IDLE ->
            Outcome(idl, prot, <<"get_idle", "accept_with">>, Accepted(env),
                    IF env.accept_ok
                    THEN << get_idle(idl[interface], request.value % U8) >> ELSE <<>>,
                    FALSE)
      [] request.request = GET_PROTOCOL ->
            Outcome(idl, prot, <<"get_protocol", "accept_with">>, Accepted(env),
                    IF env.accept_ok
                    THEN << HidProtocol_as_u8(prot[interface]) >> ELSE <<>>,
                    FALSE)
      [] OTHER -> Ignored(idl, prot)

\* variant of ControlInAddressed: the recipient is not looked at
ControlInAddressedAny(request) == TRUE

\* control_in: only requests to an Interface recipient are looked at
ControlInAddressed(request) == request.recipient = "Interface"

\* UsbHidClass::control_in(transfer)
ControlInOutcome(request, env, idl, prot) ==
    IF ~ControlInAddressed(request) THEN Ignored(idl, prot)
    ELSE LET interface_id == u8_try_from(request.index) IN
    IF interface_id = -1 THEN Ignored(idl, prot)
    ELSE LET interface == get_id_mut(interface_id) IN
    CASE request.request_type = "Standard" ->
            IF interface = -1 THEN Ignored(idl, prot)
            ELSE IF request.request = GET_DESCRIPTOR
            THEN get_descriptor(request, env, interface, idl, prot)
            ELSE Ignored(idl, prot)
      [] request.request_type = "Class" ->
            IF interface = -1 THEN Ignored(idl, prot)
            ELSE ControlInClass(request, env, interface, idl, prot)
      [] OTHER -> Ignored(idl, prot)

\* the host's Class request `code` to one of the device's interfaces was acknowledged
Acknowledged(request, status, code) ==
    /\ request.direction = "Out"
    /\ request.request_type = "Class" /\ request.recipient = "Interface"
    /\ request.request = code /\ request.index \in Ifaces
    /\ status = "accepted"

\* history: the idle rates the host has had acknowledged (HID 1.11 7.2.4: the
\* high byte of wValue is the rate, the low byte the report id)
HostIdleAfter(request, status) ==
    IF Acknowledged(request, status, SET_IDLE) /\ request.value % U8 \in ReportIds
    THEN [host_idle EXCEPT ![request.index][request.value % U8] = request.value \div U8]
    ELSE host_idle

\* history: the protocol codes the host has had acknowledged (HID 1.11 7.2.6)
HostProtocolAfter(request, status) ==
    IF Acknowledged(request, status, SET_PROTOCOL)
    THEN [host_protocol EXCEPT ![request.index] = request.value % U8]
    ELSE host_protocol

\* history kept over a step that leaves the keyboard's transmissions alone
HistoryKept ==
    /\ stable' = (stable /\ idle'[KEYBOARD_ID] = idle[KEYBOARD_ID])
    /\ since' = IF stable' THEN since ELSE 0
    /\ period' = IF stable' THEN period ELSE -1

\* the host opens a control transfer; the USB stack will hand it to the class
HostSetup(t) ==
    /\ ~panicked
    /\ xfer.stage = "none"
    /\ xfer' = [stage |-> "setup", req |-> t.req, env |-> t.env, calls |-> <<>>,
                delivered |-> <<>>, status |-> "unanswered", reply |-> <<>>]
    /\ last' = "setup"
    /\ undone' = FALSE
    /\ UNCHANGED << idle, protocol, last_report, countdown, in_ep, ret,
                    timerView, written, hostView, panicked >>

\* the handler's outcome applied to the interfaces and to the transfer in flight
Handled(o) ==
    /\ idle' = o.idle
    /\ protocol' = o.protocol
    /\ xfer' = [xfer EXCEPT !.stage = "handled", !.calls = o.calls,
                            !.delivered = o.delivered,
                            !.status = o.status, !.reply = o.reply]
    /\ panicked' = o.panic
    /\ host_idle' = HostIdleAfter(xfer.req, o.status)
    /\ host_protocol' = HostProtocolAfter(xfer.req, o.status)
    /\ HistoryKept
    /\ UNCHANGED << last_report, countdown, in_ep, ret, written >>

control_out ==
    /\ ~panicked
    /\ xfer.stage = "setup"
    /\ xfer.req.direction = "Out"
    /\ last' = "control_out"
    /\ undone' = FALSE
    /\ Handled(ControlOutOutcome(xfer.req, xfer.env, idle, protocol))

control_in ==
    /\ ~panicked
    /\ xfer.stage = "setup"
    /\ xfer.req.direction = "In"
    /\ last' = "control_in"
    /\ undone' = FALSE
    /\ Handled(ControlInOutcome(xfer.req, xfer.env, idle, protocol))

\* the USB stack closes the transfer: an unanswered one is stalled
Complete ==
    /\ ~panicked
    /\ xfer.stage = "handled"
    /\ xfer' = NoXfer
    /\ last' = "complete"
    /\ undone' = FALSE
    /\ UNCHANGED << idle, protocol, last_report, countdown, in_ep, ret,
                    timerView, written, hostView, panicked >>

\* variant of ManagedInterface_reset: the cached report is dropped
ManagedInterface_reset_cleared(cache) == [i \in DOMAIN cache |-> <<>>]

\* ManagedInterface::reset(): the cached last report is kept
ManagedInterface_reset(cache) == cache

\* history kept over a bus reset
ResetHistory ==
    /\ last' = "reset"
    /\ undone' = (idle' # idle \/ protocol' # protocol)
    /\ host_idle' = [i \in Ifaces |-> [rid \in ReportIds |-> -1]]
    /\ host_protocol' = [i \in Ifaces |-> -1]
    /\ HistoryKept

\* variant of reset: the call is not passed on to the interfaces
reset_not_delegated ==
    /\ ~panicked
    /\ UNCHANGED << idle, protocol, last_report >>
    /\ xfer' = NoXfer
    /\ ResetHistory
    /\ UNCHANGED << countdown, in_ep, ret, written, panicked >>

\* UsbHidClass::reset(): every interface restores its idle table and protocol;
\* the bus reset drops the control transfer in flight
reset ==
    /\ ~panicked
    /\ idle' = [i \in Ifaces |-> [rid \in ReportIds |-> DefaultIdle(i)]]
    /\ protocol' = [i \in Ifaces |-> "Report"]
    /\ last_report' = ManagedInterface_reset(last_report)
    /\ xfer' = NoXfer
    /\ ResetHistory
    /\ UNCHANGED << countdown, in_ep, ret, written, panicked >>

----------------------------------------------------------------------------
(* Report writers and the idle timer                                       *)

NoRet ==
    [iface |-> -1, arg |-> <<>>, ok |-> TRUE, kind |-> "", err |-> "",
     n |-> 0, attempts |-> 0, bus |-> ""]

\* EndpointIn::write on interface i: WouldBlock while the last packet is unflushed,
\* otherwise whatever the bus answers
EndpointWrite(i, fault) ==
    IF in_ep[i] # <<>> THEN "WouldBlock"
    ELSE IF fault THEN "InvalidState" ELSE "Ok"

\* RawInterface::write_report(data)
RawInterface_write_report(i, data, fault) ==
    LET o == EndpointWrite(i, fault) IN
    [bus |-> o, ep |-> IF o = "Ok" THEN data ELSE in_ep[i],
     n |-> IF o = "Ok" THEN Len(data) ELSE 0]

\* variant of IdleTicks: the rate taken as a number of ticks
IdleTicksUnscaled(rate) == rate

\* idle rate (4 ms units) as a number of 1 ms ticks
IdleTicks(rate) == rate * IDLE_UNIT_MS

\* variant of Expired: the idle rate is not looked at
ExpiredAnyRate(c, rate) == c = 0

\* tick: the countdown has reached zero with a non-zero idle rate
Expired(c, rate) == c = 0 /\ rate # 0

\* variant of CountdownAfter: a failed retransmission leaves the countdown at
\* zero, so that the very next tick tries again
CountdownAfterRetry(c, rate, expired, bus) ==
    IF expired /\ bus \in {"", "Ok"} THEN IdleTicks(rate)
    ELSE IF expired THEN 0 ELSE c

\* tick: the countdown is reset at expiry, whatever became of the retransmission
CountdownAfter(c, rate, expired, bus) == IF expired THEN IdleTicks(rate) ELSE c

\* ManagedInterface::write_report(report) on the keyboard
ManagedInterface_write_report(i, report, arg, fault) ==
    LET w == RawInterface_write_report(i, BootKeyboardReport_pack(report), fault)
        sent == w.bus = "Ok"
    IN  /\ in_ep' = [in_ep EXCEPT ![i] = w.ep]
        /\ last_report' = IF sent THEN [last_report EXCEPT ![i] = <<report>>]
                          ELSE last_report
        /\ countdown' = IF sent
                        THEN [countdown EXCEPT ![i] = IdleTicks(get_idle(idle[i], 0))]
                        ELSE countdown
        /\ ret' = [iface |-> i, arg |-> arg, ok |-> sent,
                   kind |-> IF sent THEN "" ELSE "UsbHidError",
                   err |-> IF sent THEN "" ELSE w.bus,
                   n |-> 0, attempts |-> 1, bus |-> w.bus]
        /\ last' = "write_report"
        /\ undone' = FALSE
        /\ stable' = (sent \/ stable)
        /\ since' = IF sent THEN 0 ELSE since
        /\ period' = IF sent THEN -1 ELSE period
        /\ written' = IF sent THEN <<arg>> ELSE written
        /\ UNCHANGED << idle, protocol, xfer, hostView, panicked >>

\* ManagedInterface::tick()
ManagedInterface_tick(i, fault) ==
    LET rate == get_idle(idle[i], 0)
        c == IF countdown[i] > 0 THEN countdown[i] - 1 ELSE 0
        expired == Expired(c, rate)
        attempt == expired /\ last_report[i] # <<>>
        w == IF attempt
             THEN RawInterface_write_report(
                      i, BootKeyboardReport_pack(last_report[i][1]), fault)
             ELSE [bus |-> "", ep |-> in_ep[i], n |-> 0]
        sent == attempt /\ w.bus = "Ok"
    IN  /\ countdown' = [countdown EXCEPT ![i] = CountdownAfter(c, rate, expired, w.bus)]
        /\ in_ep' = [in_ep EXCEPT ![i] = w.ep]
        /\ ret' = [iface |-> i, arg |-> <<>>, ok |-> TRUE, kind |-> "",
                   err |-> "", n |-> 0,
                   attempts |-> IF attempt THEN 1 ELSE 0, bus |-> w.bus]
        /\ stable' = IF sent THEN TRUE ELSE IF attempt THEN FALSE ELSE stable
        /\ since' = IF sent THEN 0
                    ELSE IF stable' /\ rate # 0 THEN since + 1 ELSE 0
        /\ period' = IF sent /\ stable THEN since + 1
                     ELSE IF sent \/ ~stable' THEN -1 ELSE period
        /\ last' = "tick"
        /\ undone' = undone
        /\ UNCHANGED << idle, protocol, last_report, xfer, written, hostView, panicked >>

\* variant of BootKeyboardInterface_report: the keys are dropped
BootKeyboardInterface_report_empty(keys) == BootKeyboardReport_default

\* the report BootKeyboardInterface::write_report hands to the managed interface
BootKeyboardInterface_report(keys) == BootKeyboardReport_new(keys)

\* BootKeyboardInterface::write_report(keys)
BootKeyboardInterface_write_report(keys, fault) ==
    /\ ~panicked
    /\ ManagedInterface_write_report(
           KEYBOARD_ID, BootKeyboardInterface_report(keys), keys, fault)

\* BootKeyboardInterface::tick()
BootKeyboardInterface_tick(fault) ==
    /\ ~panicked
    /\ ManagedInterface_tick(KEYBOARD_ID, fault)

\* variant of BootMouseInterface_result: the raw write's error is discarded
BootMouseInterface_result_discarded(w, report) ==
    [iface |-> MOUSE_ID, arg |-> report, ok |-> TRUE, kind |-> "", err |-> "",
     n |-> 0, attempts |-> 1, bus |-> w.bus]

\* the error a raw write leaves BootMouseInterface::write_report's caller with:
\* .map(|_| ()).map_err(UsbHidError::from)
BootMouseInterface_result(w, report) ==
    [iface |-> MOUSE_ID, arg |-> report, ok |-> w.bus = "Ok",
     kind |-> IF w.bus = "Ok" THEN "" ELSE "UsbHidError",
     err |-> IF w.bus = "Ok" THEN "" ELSE w.bus,
     n |-> 0, attempts |-> 1, bus |-> w.bus]

\* BootMouseInterface::write_report(report)
BootMouseInterface_write_report(report, fault) ==
    LET w == RawInterface_write_report(MOUSE_ID, BootMouseReport_pack(report), fault) IN
    /\ ~panicked
    /\ in_ep' = [in_ep EXCEPT ![MOUSE_ID] = w.ep]
    /\ ret' = BootMouseInterface_result(w, << report.buttons, report.x, report.y >>)
    /\ last' = "write_report"
    /\ undone' = FALSE
    /\ UNCHANGED << idle, protocol, last_report, countdown, xfer,
                    timerView, written, hostView, panicked >>

\* what ConsumerControlInterface::write_report returns: the raw interface's
\* usb_device::Result<usize> as it is
ConsumerControlInterface_result(w, report) ==
    [iface |-> CONSUMER_ID, arg |-> report, ok |-> w.bus = "Ok",
     kind |-> IF w.bus = "Ok" THEN "" ELSE "UsbError",
     err |-> IF w.bus = "Ok" THEN "" ELSE w.bus,
     n |-> w.n, attempts |-> 1, bus |-> w.bus]

\* ConsumerControlInterface::write_report(report)
ConsumerControlInterface_write_report(report, fault) ==
    LET w == RawInterface_write_report(
                 CONSUMER_ID, MultipleConsumerReport_pack(report), fault) IN
    /\ ~panicked
    /\ in_ep' = [in_ep EXCEPT ![CONSUMER_ID] = w.ep]
    /\ ret' = ConsumerControlInterface_result(w, report.codes)
    /\ last' = "write_report"
    /\ undone' = FALSE
    /\ UNCHANGED << idle, protocol, last_report, countdown, xfer,
                    timerView, written, hostView, panicked >>

\* what a failed pack() leaves the caller of a mouse's write_report with:
\* .map_err(|e| UsbHidError::SerializationError)?, before any endpoint write
MousePackFailure(arg) ==
    [iface |-> MOUSE_ID, arg |-> arg, ok |-> FALSE,
     kind |-> "UsbHidError", err |-> "SerializationError",
     n |-> 0, attempts |-> 0, bus |-> ""]

\* what a failed pack() leaves the caller of a consumer control's write_report
\* with: .map_err(|e| UsbError::ParseError)?, before any endpoint write
ConsumerPackFailure(arg) ==
    [iface |-> CONSUMER_ID, arg |-> arg, ok |-> FALSE,
     kind |-> "UsbError", err |-> "ParseError",
     n |-> 0, attempts |-> 0, bus |-> ""]

\* the early return of a write_report whose pack() failed: the error goes to
\* the caller and nothing else happens
PackFailureReturn(result) ==
    /\ ~panicked
    /\ ret' = result
    /\ last' = "write_report"
    /\ undone' = FALSE
    /\ UNCHANGED << idle, protocol, last_report, countdown, in_ep, xfer,
                    timerView, written, hostView, panicked >>

\* BootMouseInterface::write_report(report), with the outcome of report.pack()
\* as an input: `packs` is whether the packed_struct encoder returned Ok
BootMouseInterface_write_report_packing(report, packs, fault) ==
    IF packs THEN BootMouseInterface_write_report(report, fault)
    ELSE PackFailureReturn(MousePackFailure(<< report.buttons, report.x, report.y >>))

\* WheelMouseInterface::write_report(report) on a device whose mouse interface
\* is the wheel mouse
WheelMouseInterface_write_report_packing(report, packs, fault) ==
    LET arg == << report.buttons, report.x, report.y,
                  report.vertical_wheel, report.horizontal_wheel >>
        w == RawInterface_write_report(MOUSE_ID, WheelMouseReport_pack(report), fault)
    IN  IF ~packs THEN PackFailureReturn(MousePackFailure(arg))
        ELSE /\ ~panicked
             /\ in_ep' = [in_ep EXCEPT ![MOUSE_ID] = w.ep]
             /\ ret' = BootMouseInterface_result(w, arg)
             /\ last' = "write_report"
             /\ undone' = FALSE
             /\ UNCHANGED << idle, protocol, last_report, countdown, xfer,
                             timerView, written, hostView, panicked >>

\* ConsumerControlInterface::write_report(report), with the outcome of
\* report.pack() as an input
ConsumerControlInterface_write_report_packing(report, packs, fault) ==
    IF packs THEN ConsumerControlInterface_write_report(report, fault)
    ELSE PackFailureReturn(ConsumerPackFailure(report.codes))

\* ConsumerControlFixedInterface::write_report(report) on a device whose
\* consumer interface is the fixed-function one
ConsumerControlFixedInterface_write_report_packing(report, packs, fault) ==
    LET w == RawInterface_write_report(
                 CONSUMER_ID, FixedFunctionReport_pack(report), fault)
    IN  IF ~packs THEN PackFailureReturn(ConsumerPackFailure(report))
        ELSE /\ ~panicked
             /\ in_ep' = [in_ep EXCEPT ![CONSUMER_ID] = w.ep]
             /\ ret' = ConsumerControlInterface_result(w, report)
             /\ last' = "write_report"
             /\ undone' = FALSE
             /\ UNCHANGED << idle, protocol, last_report, countdown, xfer,
                             timerView, written, hostView, panicked >>

\* the host polls interface i's IN endpoint and takes the waiting packet
HostPoll(i) ==
    /\ ~panicked
    /\ in_ep[i] # <<>>
    /\ in_ep' = [in_ep EXCEPT ![i] = <<>>]
    /\ last' = "poll"
    /\ undone' = FALSE
    /\ UNCHANGED << idle, protocol, last_report, countdown, xfer, ret,
                    timerView, written, hostView, panicked >>

----------------------------------------------------------------------------
(* Specifications                                                          *)

Init ==
    /\ idle = [i \in Ifaces |-> [rid \in ReportIds |-> DefaultIdle(i)]]
    /\ protocol = [i \in Ifaces |-> "Report"]
    /\ last_report = [i \in Managed |-> <<>>]
    /\ countdown = [i \in Managed |-> IdleTicks(DefaultIdle(i))]
    /\ in_ep = [i \in Ifaces |-> <<>>]
    /\ xfer = NoXfer
    /\ ret = NoRet
    /\ last = "init"
    /\ since = 0
    /\ stable = FALSE
    /\ period = -1
    /\ written = <<>>
    /\ host_idle = [i \in Ifaces |-> [rid \in ReportIds |-> -1]]
    /\ host_protocol = [i \in Ifaces |-> -1]
    /\ undone = FALSE
    /\ panicked = FALSE

\* key sequences the firmware writes
KeyInputs == { <<KeyA>>, <<LeftShift, KeyB>> }

\* mouse reports the firmware writes
MouseInputs == { [buttons |-> 1, x |-> 0, y |-> -1], [buttons |-> 0, x |-> 5, y |-> 0] }

\* consumer reports the firmware writes (usage codes 0x0299 and 0x01AB)
ConsumerInputs == { [codes |-> <<665, 427, 0, 0>>], [codes |-> <<0, 0, 0, 0>>] }

\* the USB stack's callbacks: control transfers and bus reset
Next ==
    \/ \E t \in Transfers : HostSetup(t)
    \/ control_out
    \/ control_in
    \/ Complete
    \/ reset

Spec == Init /\ [][Next]_vars

\* SetIdle transfers to the keyboard's report 0
IdleTransfers ==
    {[req |-> Req("Out", "Class", "Interface", SET_IDLE, Value(rate, 0), KEYBOARD_ID, 0),
      env |-> NoEnv] : rate \in Rates}

\* the 1 kHz timer callback and the keyboard's report writer, with the host
\* setting the idle rate, polling the IN endpoint and resetting the bus
NextIdle ==
    \/ \E fault \in BOOLEAN : BootKeyboardInterface_tick(fault)
    \/ \E keys \in KeyInputs, fault \in BOOLEAN :
          BootKeyboardInterface_write_report(keys, fault)
    \/ HostPoll(KEYBOARD_ID)
    \/ \E t \in IdleTransfers : HostSetup(t)
    \/ control_out
    \/ Complete
    \/ reset

SpecIdle == Init /\ [][NextIdle]_vars

\* the firmware's report writers against the host polling the IN endpoints
NextWrite ==
    \/ \E keys \in KeyInputs, fault \in BOOLEAN :
          BootKeyboardInterface_write_report(keys, fault)
    \/ \E report \in MouseInputs, fault \in BOOLEAN :
          BootMouseInterface_write_report(report, fault)
    \/ \E report \in ConsumerInputs, fault \in BOOLEAN :
          ConsumerControlInterface_write_report(report, fault)
    \/ \E i \in Ifaces : HostPoll(i)

SpecWrite == Init /\ [][NextWrite]_vars

\* reports the mouse and consumer writers are called with
WheelInputs ==
    [buttons : {0, 1}, x : {-1, 0}, y : {0}, vertical_wheel : {0, 1},
     horizontal_wheel : {0}]
FixedInputs ==
    [next : {FALSE}, previous : {FALSE}, stop : {FALSE}, play_pause : BOOLEAN,
     mute : BOOLEAN, volume_increment : {FALSE}, volume_decrement : {FALSE}]

\* the report writers of the mouse and consumer control interfaces, each with
\* an encoder that may fail, against the host polling the IN endpoints
NextPack ==
    \/ \E report \in MouseInputs, packs \in BOOLEAN, fault \in BOOLEAN :
          BootMouseInterface_write_report_packing(report, packs, fault)
    \/ \E report \in WheelInputs, packs \in BOOLEAN, fault \in BOOLEAN :
          WheelMouseInterface_write_report_packing(report, packs, fault)
    \/ \E report \in ConsumerInputs, packs \in BOOLEAN, fault \in BOOLEAN :
          ConsumerControlInterface_write_report_packing(report, packs, fault)
    \/ \E report \in FixedInputs, packs \in BOOLEAN, fault \in BOOLEAN :
          ConsumerControlFixedInterface_write_report_packing(report, packs, fault)
    \/ \E i \in {MOUSE_ID, CONSUMER_ID} : HostPoll(i)

SpecPack == Init /\ [][NextPack]_vars

----------------------------------------------------------------------------
(* Properties of the control dispatcher (checked under Spec)               *)

\* the transfer being handled is a Class request `code` to an Interface recipient
ClassToInterface(r, code) ==
    r.request_type = "Class" /\ r.recipient = "Interface" /\ r.request = code

\* C7: a SetIdle to a registered interface N with value (rate << 8) | report_id
\* sets exactly N's idle entry for report_id to rate, leaves every other entry
\* and every protocol alone, and is acknowledged; a GetIdle to N for a report id
\* whose rate the host has set since the last reset is answered with that one byte.
C7_SetIdleGetIdleRouting ==
    [][ LET r == xfer.req
            N == r.index
            rid == r.value % 256
            rate == r.value \div 256
        IN  /\ (last' = "control_out" /\ ClassToInterface(r, SET_IDLE)
                 /\ N \in Ifaces /\ rid \in ReportIds)
                => /\ idle' = [idle EXCEPT ![N][rid] = rate]
                   /\ protocol' = protocol
                   /\ xfer'.status = "accepted"
            /\ (last' = "control_in" /\ ClassToInterface(r, GET_IDLE)
                 /\ N \in Ifaces /\ rid \in ReportIds /\ host_idle[N][rid] # -1)
                => /\ xfer'.reply = << host_idle[N][rid] >>
                   /\ xfer'.status = "accepted"
                   /\ idle' = idle
      ]_vars

\* C7 happens: the mouse answers GetIdle for report 1 with the rate 1 the host
\* set, while its report 0 and the keyboard keep their defaults
C7_GetIdleAnswersSetRate ==
    /\ xfer.stage = "handled" /\ last = "control_in"
    /\ ClassToInterface(xfer.req, GET_IDLE)
    /\ xfer.req.index = MOUSE_ID /\ xfer.req.value % 256 = 1
    /\ host_idle[MOUSE_ID] = [rid \in ReportIds |-> IF rid = 1 THEN 1 ELSE -1]
    /\ xfer.reply = << 1 >>
    /\ idle[MOUSE_ID][0] = 0
    /\ idle[KEYBOARD_ID] = [rid \in ReportIds |-> 125]

\* C8: a control_in or control_out transfer whose index is not the id of a
\* registered interface (an index above 255 included) changes no interface's
\* state, calls nothing, is left unanswered and does not panic.
C8_UnknownInterfaceIgnored ==
    [][ (last' \in {"control_out", "control_in"} /\ xfer.req.index \notin Ifaces)
        => /\ UNCHANGED ifaceState
           /\ xfer'.calls = <<>>
           /\ xfer'.status = "unanswered"
           /\ xfer'.reply = <<>>
           /\ ~panicked'
      ]_vars

\* C8 happens: a SetIdle to index 257, whose low byte is the mouse's id, was
\* handled and left unanswered with the mouse's idle table at its default
C8_SetIdleAbove255Unanswered ==
    /\ xfer.stage = "handled" /\ last = "control_out"
    /\ ClassToInterface(xfer.req, SET_IDLE)
    /\ xfer.req.index = 257 /\ xfer.req.value \div 256 = 1
    /\ xfer.status = "unanswered"
    /\ idle[MOUSE_ID] = [rid \in ReportIds |-> 0]

\* C9: a control_out transfer whose request type is not Class or whose
\* recipient is not Interface calls no interface method, changes no state and
\* is not acknowledged.
C9_ControlOutGate ==
    [][ (last' = "control_out"
         /\ ~(xfer.req.request_type = "Class" /\ xfer.req.recipient = "Interface"))
        => /\ UNCHANGED ifaceState
           /\ xfer'.calls = <<>>
           /\ xfer'.status = "unanswered"
      ]_vars

\* C9 happens: a Standard SET_PROTOCOL to the keyboard, whose value would select
\* Boot, was handled, not acknowledged, and the keyboard is still in Report mode
C9_StandardSetProtocolIgnored ==
    /\ xfer.stage = "handled" /\ last = "control_out"
    /\ xfer.req.request_type = "Standard" /\ xfer.req.recipient = "Interface"
    /\ xfer.req.request = SET_PROTOCOL /\ xfer.req.index = KEYBOARD_ID
    /\ xfer.req.value % 256 = 0
    /\ xfer.status = "unanswered" /\ xfer.calls = <<>>
    /\ protocol[KEYBOARD_ID] = "Report"

\* C10: a SetProtocol to a registered interface N whose value has low byte 0
\* sets N's protocol to Boot, low byte 1 to Report, whatever the high byte, changes
\* nothing else and is acknowledged; a GetProtocol to N after the host has set
\* a mode since the last reset is answered with the one byte of that mode.
C10_SetProtocolGetProtocol ==
    [][ LET r == xfer.req
            N == r.index
            low == r.value % 256
        IN  /\ (last' = "control_out" /\ ClassToInterface(r, SET_PROTOCOL)
                 /\ N \in Ifaces /\ low \in {0, 1})
                => /\ protocol' = [protocol EXCEPT
                                      ![N] = IF low = 0 THEN "Boot" ELSE "Report"]
                   /\ idle' = idle
                   /\ xfer'.status = "accepted"
            /\ (last' = "control_in" /\ ClassToInterface(r, GET_PROTOCOL)
                 /\ N \in Ifaces /\ host_protocol[N] # -1)
                => /\ xfer'.reply = << host_protocol[N] >>
                   /\ xfer'.status = "accepted"
                   /\ protocol' = protocol
      ]_vars

\* C10 happens: the mouse answers GetProtocol with 0 after the host put it in
\* Boot mode, while the keyboard is still in Report mode
C10_GetProtocolAnswersBoot ==
    /\ xfer.stage = "handled" /\ last = "control_in"
    /\ ClassToInterface(xfer.req, GET_PROTOCOL)
    /\ xfer.req.index = MOUSE_ID
    /\ host_protocol[MOUSE_ID] = 0
    /\ xfer.reply = << 0 >>
    /\ protocol[MOUSE_ID] = "Boot"
    /\ protocol[KEYBOARD_ID] = "Report"

----------------------------------------------------------------------------
(* Properties of the idle timer (checked under SpecIdle)                   *)

\* the keyboard's configured idle rate (report 0)
KbdRate == idle[KEYBOARD_ID][0]

\* the packet that carries the keys of the keyboard's last successful write_report
WrittenPacket == BootKeyboardReport_pack(BootKeyboardReport_new(written[1]))

\* C1: with idle rate N > 0 and nothing but ticks since the keyboard's last
\* transmission (stable), a tick whose endpoint accepts writes retransmits if
\* and only if it is the (N*4)-th tick since that transmission, and what it
\* transmits is the report last written.
C1_IdleCadence ==
    [][ (last' = "tick" /\ stable /\ KbdRate > 0 /\ ret'.bus \in {"", "Ok"})
        => /\ (ret'.bus = "Ok") <=> (since + 1 = 4 * KbdRate)
           /\ (ret'.bus = "Ok") => in_ep'[KEYBOARD_ID] = WrittenPacket
      ]_vars

\* C1 happens: at the default rate 125 a tick has retransmitted the written
\* key A 500 undisturbed ticks after the previous transmission
C1_RetransmittedAfter500 ==
    /\ last = "tick" /\ ret.bus = "Ok"
    /\ KbdRate = 125 /\ period = 500
    /\ written = << <<KeyA>> >>
    /\ in_ep[KEYBOARD_ID] = << 0, 0, 4, 0, 0, 0, 0, 0 >>

\* C2: while the keyboard's idle rate is 0 a tick attempts no transmission and
\* leaves the IN endpoint alone, and a step that puts a packet in the IN
\* endpoint is a write_report.
C2_RateZeroDisables ==
    [][ KbdRate = 0
        => /\ (last' = "tick") => (ret'.attempts = 0 /\ in_ep' = in_ep)
           /\ (in_ep'[KEYBOARD_ID] # in_ep[KEYBOARD_ID] /\ in_ep'[KEYBOARD_ID] # <<>>)
              => last' = "write_report"
      ]_vars

\* C2 happens: a tick has run with rate 0, a cached report, the countdown at
\* zero and the endpoint free, and nothing was transmitted
C2_TickAtRateZeroSilent ==
    /\ last = "tick" /\ KbdRate = 0
    /\ last_report[KEYBOARD_ID] # <<>>
    /\ countdown[KEYBOARD_ID] = 0
    /\ ret.attempts = 0
    /\ in_ep[KEYBOARD_ID] = <<>>

C4_WriteReportResetsTimer ==
    [][ /\ (last' = "write_report" /\ ret'.iface = KEYBOARD_ID /\ ret'.ok)
            => /\ in_ep'[KEYBOARD_ID] =
                      BootKeyboardReport_pack(BootKeyboardReport_new(ret'.arg))
               /\ last_report'[KEYBOARD_ID] = << BootKeyboardReport_new(ret'.arg) >>
               /\ countdown'[KEYBOARD_ID] = 4 * KbdRate
               /\ written' = << ret'.arg >>
        /\ (last' = "tick" /\ ret'.bus = "Ok")
            => /\ in_ep'[KEYBOARD_ID] = WrittenPacket
               /\ last_report'[KEYBOARD_ID] = << BootKeyboardReport_new(written[1]) >>
               /\ stable => since + 1 = 4 * KbdRate
      ]_vars

\* C4 happens: LeftShift + B was written, and 4 ticks after the last
\* transmission at rate 1 a tick has retransmitted exactly those keys
C4_RetransmissionCarriesWritten ==
    /\ last = "tick" /\ ret.bus = "Ok"
    /\ written = << <<LeftShift, KeyB>> >>
    /\ KbdRate = 1 /\ period = 4
    /\ in_ep[KEYBOARD_ID] = << 2, 0, 5, 0, 0, 0, 0, 0 >>
    /\ countdown[KEYBOARD_ID] = 4

\* C6: a tick whose retransmission fails has made exactly one attempt, leaves
\* the cache and the IN endpoint as they were, and leaves the countdown at
\* idle_rate*4, so the next attempt comes at the next expiry.
C6_TickNoSynchronousRetry ==
    [][ (last' = "tick" /\ ret'.bus \notin {"", "Ok"})
        => /\ ret'.attempts = 1
           /\ last_report' = last_report
           /\ in_ep' = in_ep
           /\ KbdRate > 0
           /\ countdown'[KEYBOARD_ID] = 4 * KbdRate
      ]_vars

\* C6 happens: a tick at rate 1 found the endpoint busy, tried once, kept the
\* cache and the waiting packet, and reloaded the countdown
C6_TickFoundEndpointBusy ==
    /\ last = "tick" /\ ret.bus = "WouldBlock" /\ ret.attempts = 1
    /\ KbdRate = 1
    /\ last_report[KEYBOARD_ID] # <<>>
    /\ in_ep[KEYBOARD_ID] # <<>>
    /\ countdown[KEYBOARD_ID] = 4

----------------------------------------------------------------------------
(* Properties of the report writers (checked under SpecWrite)              *)

\* the packet write_report(arg) on interface i is to hand to the endpoint
ExpectedPacket(i, arg) ==
    CASE i = KEYBOARD_ID -> BootKeyboardReport_pack(BootKeyboardReport_new(arg))
      [] i = MOUSE_ID    -> << arg[1], (arg[2] + 256) % 256, (arg[3] + 256) % 256 >>
      [] OTHER           -> MultipleConsumerReport_pack([codes |-> arg])

\* C5: a write_report called while the IN endpoint holds an unflushed packet
\* fails with WouldBlock; whenever the transport fails, write_report fails with
\* the transport's error and the endpoint keeps what it held; write_report
\* returns Ok only if the endpoint was free and now holds the report.
C5_NeverSilentlyDropped ==
    [][ last' = "write_report"
        => LET i == ret'.iface IN
           /\ in_ep[i] # <<>> => (~ret'.ok /\ ret'.err = "WouldBlock")
           /\ ret'.bus # "Ok" => (~ret'.ok /\ ret'.err = ret'.bus /\ in_ep' = in_ep)
           /\ ret'.ok => /\ in_ep[i] = <<>>
                         /\ in_ep' = [in_ep EXCEPT ![i] = ExpectedPacket(i, ret'.arg)]
      ]_vars

\* C5 happens: the mouse's write_report of a second report failed with
\* WouldBlock while the first report was still waiting in the endpoint
C5_MouseWriteWhileBusy ==
    /\ last = "write_report" /\ ret.iface = MOUSE_ID
    /\ ret.arg = << 0, 5, 0 >>
    /\ ~ret.ok /\ ret.err = "WouldBlock"
    /\ in_ep[MOUSE_ID] = << 1, 0, 255 >>

----------------------------------------------------------------------------
(* Properties of the control dispatcher, by request (checked under Spec)   *)

\* C11: a SetProtocol to a registered interface whose value has a low byte
\* other than 0 and 1 leaves every interface's state as it was, calls nothing,
\* is left unanswered and does not panic.
C11_UnsupportedSetProtocol ==
    [][ (last' = "control_out" /\ ClassToInterface(xfer.req, SET_PROTOCOL)
         /\ xfer.req.index \in Ifaces /\ xfer.req.value % 256 \notin {0, 1})
        => /\ UNCHANGED ifaceState
           /\ xfer'.calls = <<>>
           /\ xfer'.status = "unanswered"
           /\ ~panicked'
      ]_vars

\* C11 happens: a SetProtocol with low byte 2 to the keyboard was handled and
\* left unanswered, and the keyboard is still in the Boot mode set before
C11_SetProtocol2KeepsBoot ==
    /\ xfer.stage = "handled" /\ last = "control_out"
    /\ ClassToInterface(xfer.req, SET_PROTOCOL)
    /\ xfer.req.index = KEYBOARD_ID /\ xfer.req.value % 256 = 2
    /\ xfer.status = "unanswered"
    /\ protocol[KEYBOARD_ID] = "Boot" /\ host_protocol[KEYBOARD_ID] = 0

\* C12: a SetReport to a registered interface hands the transfer's payload to
\* set_report, then calls accept, and is acknowledged whether set_report
\* returned Ok or an error; no idle rate and no protocol mode changes.
C12_SetReportAcknowledged ==
    [][ (last' = "control_out" /\ ClassToInterface(xfer.req, SET_REPORT)
         /\ xfer.req.index \in Ifaces)
        => /\ xfer'.calls = << "set_report", "accept" >>
           /\ xfer'.delivered = << xfer.env.data >>
           /\ xfer'.status = "accepted"
           /\ idle' = idle /\ protocol' = protocol
      ]_vars

\* C12 happens: the keyboard's set_report failed on the payload <<2>> and the
\* transfer was acknowledged all the same
C12_FailedSetReportAcknowledged ==
    /\ xfer.stage = "handled" /\ last = "control_out"
    /\ ClassToInterface(xfer.req, SET_REPORT)
    /\ xfer.req.index = KEYBOARD_ID
    /\ xfer.env.data = << 2 >> /\ ~xfer.env.set_report_ok
    /\ xfer.delivered = << << 2 >> >>
    /\ xfer.status = "accepted"

\* C13: a Class request to a registered interface on control_out whose code is
\* none of SetReport, SetIdle, SetProtocol changes no interface's state, calls
\* nothing, and is neither accepted nor rejected by the dispatcher.
C13_OtherClassOutIgnored ==
    [][ (last' = "control_out"
         /\ xfer.req.request_type = "Class" /\ xfer.req.recipient = "Interface"
         /\ xfer.req.index \in Ifaces /\ xfer.req.request \notin {9, 10, 11})
        => /\ UNCHANGED ifaceState
           /\ xfer'.calls = <<>>
           /\ xfer'.status = "unanswered"
      ]_vars

\* C13 happens: a Class GET_REPORT (0x01) sent to the mouse on control_out was
\* handled with no call and no answer
C13_GetReportOnControlOut ==
    /\ xfer.stage = "handled" /\ last = "control_out"
    /\ ClassToInterface(xfer.req, GET_REPORT)
    /\ xfer.req.index = MOUSE_ID
    /\ xfer.calls = <<>> /\ xfer.status = "unanswered"

\* the control_in requests outside the supported set
ControlInUnsupported(r) ==
    \/ r.recipient # "Interface"
    \/ r.request_type \notin {"Standard", "Class"}
    \/ r.request_type = "Standard" /\ r.request # 6
    \/ r.request_type = "Standard" /\ r.request = 6 /\ r.value \div 256 \notin {33, 34}
    \/ r.request_type = "Class" /\ r.request \notin {1, 2, 3}

\* C14: a control_in transfer outside the supported set (recipient not
\* Interface, type neither Standard nor Class, Standard other than
\* GET_DESCRIPTOR, GET_DESCRIPTOR of a type other than Report and Hid, Class
\* other than GetReport, GetIdle, GetProtocol) is left unanswered with no
\* reply, no call and no state change.
C14_ControlInFailsClosed ==
    [][ (last' = "control_in" /\ ControlInUnsupported(xfer.req))
        => /\ UNCHANGED ifaceState
           /\ xfer'.calls = <<>>
           /\ xfer'.status = "unanswered"
           /\ xfer'.reply = <<>>
           /\ ~panicked'
      ]_vars

\* C14 happens: a Class GetIdle for the keyboard sent to the Device recipient
\* was handled and left unanswered
C14_GetIdleToDeviceUnanswered ==
    /\ xfer.stage = "handled" /\ last = "control_in"
    /\ xfer.req.request_type = "Class" /\ xfer.req.recipient = "Device"
    /\ xfer.req.request = GET_IDLE /\ xfer.req.index = KEYBOARD_ID
    /\ xfer.status = "unanswered" /\ xfer.reply = <<>>

\* C15: a Standard GET_DESCRIPTOR to a registered interface is answered, for
\* type Report, with that interface's report descriptor, and for type Hid with
\* 9 bytes: 9, 0x21, then the interface's 7-byte HID descriptor body.
C15_GetDescriptor ==
    [][ LET r == xfer.req
            N == r.index
        IN  (last' = "control_in" /\ r.request_type = "Standard"
             /\ r.recipient = "Interface" /\ r.request = 6 /\ N \in Ifaces)
            => /\ (r.value \div 256 = 34)
                  => /\ xfer'.status = "accepted"
                     /\ xfer'.reply = CASE N = KEYBOARD_ID -> BOOT_KEYBOARD_REPORT_DESCRIPTOR
                                         [] N = MOUSE_ID -> BOOT_MOUSE_REPORT_DESCRIPTOR
                                         [] OTHER -> MULTIPLE_CODE_REPORT_DESCRIPTOR
               /\ (r.value \div 256 = 33)
                  => /\ xfer'.status = "accepted"
                     /\ Len(xfer'.reply) = 9
                     /\ xfer'.reply[1] = 9 /\ xfer'.reply[2] = 33
                     /\ Len(hid_descriptor_body(N)) = 7
                     /\ SubSeq(xfer'.reply, 3, 9) = hid_descriptor_body(N)
      ]_vars

\* C15 happens: the keyboard has answered GET_DESCRIPTOR(Hid) with the 9 bytes
\* 9, 0x21, HID 1.11, country 0, one Report descriptor of 65 bytes
C15_KeyboardHidDescriptor ==
    /\ xfer.stage = "handled" /\ last = "control_in"
    /\ xfer.req.request_type = "Standard" /\ xfer.req.request = GET_DESCRIPTOR
    /\ xfer.req.index = KEYBOARD_ID /\ xfer.req.value \div 256 = 33
    /\ xfer.reply = << 9, 33, 17, 1, 0, 1, 34, 65, 0 >>

\* C16: a GetReport to a registered interface whose get_report gives n bytes is
\* answered with exactly those n bytes whatever length the host asked for, and
\* get_report_ack is called once, after accept_with, if and only if the
\* transfer was accepted; if get_report or accept_with fails the transfer is
\* left unanswered and get_report_ack is not called.
C16_GetReport ==
    [][ LET r == xfer.req
            e == xfer.env
        IN  (last' = "control_in" /\ ClassToInterface(r, GET_REPORT)
             /\ r.index \in Ifaces)
            => /\ (e.get_report_n >= 0 /\ e.accept_ok)
                  => /\ xfer'.status = "accepted"
                     /\ xfer'.reply = [k \in 1..e.get_report_n |-> k]
                     /\ xfer'.calls = << "get_report", "accept_with", "get_report_ack" >>
               /\ (e.get_report_n >= 0 /\ ~e.accept_ok)
                  => /\ xfer'.status = "unanswered" /\ xfer'.reply = <<>>
                     /\ xfer'.calls = << "get_report", "accept_with" >>
               /\ (e.get_report_n = -1)
                  => /\ xfer'.status = "unanswered" /\ xfer'.reply = <<>>
                     /\ xfer'.calls = << "get_report" >>
               /\ UNCHANGED ifaceState
      ]_vars

\* C16 happens: the host asked the keyboard for 0 bytes, get_report gave 1,
\* that byte was sent and get_report_ack was called after the accept
C16_GetReportLengthMismatch ==
    /\ xfer.stage = "handled" /\ last = "control_in"
    /\ ClassToInterface(xfer.req, GET_REPORT)
    /\ xfer.req.index = KEYBOARD_ID /\ xfer.req.length = 0
    /\ xfer.env.get_report_n = 1
    /\ xfer.reply = << 1 >> /\ xfer.status = "accepted"
    /\ xfer.calls = << "get_report", "accept_with", "get_report_ack" >>
    /\ ~panicked

\* C17: no control_in and no control_out call panics, whatever transfer the
\* host sent and whatever the interface's callbacks returned.
C17_DispatcherNeverPanics ==
    [][ last' \in {"control_in", "control_out"} => ~panicked' ]_vars

\* C17 fails here: GetReport to the keyboard, get_report gave a report, the
\* control pipe accepted it, get_report_ack returned an error
C17_GetReportAckErrPanics ==
    /\ panicked /\ last = "control_in"
    /\ ClassToInterface(xfer.req, GET_REPORT) /\ xfer.req.index = KEYBOARD_ID
    /\ xfer.env.get_report_n >= 0 /\ xfer.env.accept_ok /\ ~xfer.env.ack_ok
    /\ xfer.status = "accepted"

----------------------------------------------------------------------------
(* Bus reset and initial defaults                                          *)

\* what the host is answered if it asks interface N for GetIdle(rid) / GetProtocol
\* with the tables idl and prot
GetIdleReply(N, rid, idl, prot) ==
    ControlInOutcome(Req("In", "Class", "Interface", GET_IDLE, Value(0, rid), N, 1),
                     NoEnv, idl, prot).reply

GetProtocolReply(N, idl, prot) ==
    ControlInOutcome(Req("In", "Class", "Interface", GET_PROTOCOL, 0, N, 1),
                     NoEnv, idl, prot).reply

\* C18: right after a reset, GetIdle of every interface and report id is
\* answered with the interface's default idle rate (125 for the keyboard, 0 for
\* the mouse and the consumer control) and GetProtocol of every interface with
\* Report (1), whatever SetIdle and SetProtocol came before.
C18_ResetRestoresDefaults ==
    [][ last' = "reset"
        => \A N \in Ifaces :
              /\ \A rid \in ReportIds :
                    GetIdleReply(N, rid, idle', protocol')
                        = << IF N = KEYBOARD_ID THEN 125 ELSE 0 >>
              /\ GetProtocolReply(N, idle', protocol') = << 1 >>
      ]_vars

\* C18 happens: a reset has just undone an idle rate or a protocol mode set by
\* the host, and the keyboard answers 125 / Report, the mouse 0 / Report
C18_ResetUndidHostSettings ==
    /\ last = "reset" /\ undone
    /\ GetIdleReply(KEYBOARD_ID, 0, idle, protocol) = << 125 >>
    /\ GetIdleReply(MOUSE_ID, 1, idle, protocol) = << 0 >>
    /\ GetProtocolReply(KEYBOARD_ID, idle, protocol) = << 1 >>

\* C19: a reset leaves every cached last-sent report as it was, and every idle
\* retransmission by tick(), also after a reset, carries the keys of the last
\* successful write_report.
C19_ResetKeepsReportCache ==
    [][ /\ last' = "reset"
            => /\ last_report' = last_report
               /\ written' = written
        /\ (last' = "tick" /\ ret'.bus = "Ok")
            => /\ written # <<>>
               /\ in_ep'[KEYBOARD_ID] = WrittenPacket
      ]_vars

\* C19 happens: key A was written, a reset then put the idle rate back to 125,
\* nothing but ticks ran since, and a tick has retransmitted key A
C19_RetransmittedAfterReset ==
    /\ last = "tick" /\ ret.bus = "Ok" /\ undone
    /\ KbdRate = 125
    /\ written = << <<KeyA>> >>
    /\ last_report[KEYBOARD_ID] = << BootKeyboardReport_new(<<KeyA>>) >>
    /\ in_ep[KEYBOARD_ID] = << 0, 0, 4, 0, 0, 0, 0, 0 >>

\* C20: as long as the host has set no idle rate (no protocol) on the keyboard,
\* an answered GetIdle of the keyboard carries 125 (an answered GetProtocol
\* carries 1, Report); the NKRO keyboard's default_config gives 125 as well.
C20_InitialDefaults ==
    [][ LET r == xfer.req IN
        (last' = "control_in" /\ r.request_type = "Class"
         /\ r.recipient = "Interface" /\ r.index = KEYBOARD_ID)
        => /\ (r.request = GET_IDLE /\ host_idle[KEYBOARD_ID][r.value % 256] = -1)
              => xfer'.reply = << 125 >>
           /\ (r.request = GET_PROTOCOL /\ host_protocol[KEYBOARD_ID] = -1)
              => xfer'.reply = << 1 >>
           /\ NKROBootKeyboardInterface_default_idle = 125
      ]_vars

\* C20 happens: with no SetIdle and no SetProtocol acknowledged on any
\* interface, the keyboard has answered a GetIdle with 125
C20_KeyboardAnswers125 ==
    /\ xfer.stage = "handled" /\ last = "control_in"
    /\ ClassToInterface(xfer.req, GET_IDLE) /\ xfer.req.index = KEYBOARD_ID
    /\ \A i \in Ifaces : /\ host_protocol[i] = -1
                         /\ \A rid \in ReportIds : host_idle[i][rid] = -1
    /\ xfer.status = "accepted" /\ xfer.reply = << 125 >>

----------------------------------------------------------------------------
(* Report builders and codec, called by the firmware                       *)

\* Keyboard usage codes by kind
Modifiers == LeftControl..RightGUI
ErrorCodes == {ErrorRollOver, POSTFail, ErrorUndefine}
IsStandard(k) == k \notin Modifiers \cup ErrorCodes \cup {NoEventIndicated}

\* key sequences the firmware hands to the report builders
LongKeys == UNION {[1..n -> {KeyA, KeyB, LeftShift, POSTFail}] : n \in 0..MaxKeys}
MixedKeys ==
    UNION {[1..n -> Modifiers \cup ErrorCodes
                      \cup {NoEventIndicated, KeyA, KeyB, International1, International2}] :
              n \in 0..MaxMixedKeys}
KeySequences == LongKeys \cup MixedKeys

\* a call of a pure function by the firmware: nothing of the device changes
PureCall(fn, result) ==
    /\ ret' = result
    /\ last' = fn
    /\ undone' = FALSE
    /\ UNCHANGED << idle, protocol, last_report, countdown, in_ep, xfer,
                    timerView, written, hostView, panicked >>

\* the firmware has made no call yet: each behaviour holds one call
Fresh == last = "init" /\ ~panicked

\* BootKeyboardReport::new(keys).pack()
BootKeyboardReport_new_pack ==
    /\ Fresh
    /\ \E keys \in KeySequences :
          PureCall("BootKeyboardReport::new",
                   [arg |-> keys,
                    report |-> BootKeyboardReport_new(keys),
                    bytes |-> BootKeyboardReport_pack(BootKeyboardReport_new(keys))])

\* NKROBootKeyboardReport::new(keys).pack()
NKROBootKeyboardReport_new_pack ==
    /\ Fresh
    /\ \E keys \in KeySequences :
          PureCall("NKROBootKeyboardReport::new",
                   [arg |-> keys,
                    report |-> NKROBootKeyboardReport_new(keys),
                    bytes |-> NKROBootKeyboardReport_pack(NKROBootKeyboardReport_new(keys))])

\* report values the firmware encodes
LedsReports ==
    [num_lock : BOOLEAN, caps_lock : BOOLEAN, scroll_lock : BOOLEAN,
     compose : BOOLEAN, kana : BOOLEAN]
I8Values == {-128, -1, 0, 127}
BootMouseReports == [buttons : {0, 1, 7, 255}, x : I8Values, y : I8Values]
WheelMouseReports ==
    [buttons : {0, 255}, x : I8Values, y : {-1, 0},
     vertical_wheel : I8Values, horizontal_wheel : I8Values]
ConsumerReports == [codes : [1..4 -> {0, 427, 665, 668}]]
FixedFunctionReports ==
    [next : BOOLEAN, previous : BOOLEAN, stop : BOOLEAN, play_pause : BOOLEAN,
     mute : BOOLEAN, volume_increment : BOOLEAN, volume_decrement : BOOLEAN]

\* r.pack() and then T::unpack of the bytes
RoundTrip(fn, r, bytes, back) ==
    PureCall(fn, [arg |-> r, report |-> back, bytes |-> bytes])

KeyboardLedsReport_round_trip ==
    /\ Fresh
    /\ \E r \in LedsReports :
          RoundTrip("KeyboardLedsReport", r, KeyboardLedsReport_pack(r),
                    KeyboardLedsReport_unpack(KeyboardLedsReport_pack(r)))

BootKeyboardReport_round_trip ==
    /\ Fresh
    /\ \E keys \in MixedKeys :
          LET r == BootKeyboardReport_new(keys) IN
          RoundTrip("BootKeyboardReport", r, BootKeyboardReport_pack(r),
                    BootKeyboardReport_unpack(BootKeyboardReport_pack(r)))

NKROBootKeyboardReport_round_trip ==
    /\ Fresh
    /\ \E keys \in MixedKeys :
          LET r == NKROBootKeyboardReport_new(keys) IN
          RoundTrip("NKROBootKeyboardReport", r, NKROBootKeyboardReport_pack(r),
                    NKROBootKeyboardReport_unpack(NKROBootKeyboardReport_pack(r)))

BootMouseReport_round_trip ==
    /\ Fresh
    /\ \E r \in BootMouseReports :
          RoundTrip("BootMouseReport", r, BootMouseReport_pack(r),
                    BootMouseReport_unpack(BootMouseReport_pack(r)))

WheelMouseReport_round_trip ==
    /\ Fresh
    /\ \E r \in WheelMouseReports :
          RoundTrip("WheelMouseReport", r, WheelMouseReport_pack(r),
                    WheelMouseReport_unpack(WheelMouseReport_pack(r)))

MultipleConsumerReport_round_trip ==
    /\ Fresh
    /\ \E r \in ConsumerReports :
          RoundTrip("MultipleConsumerReport", r, MultipleConsumerReport_pack(r),
                    MultipleConsumerReport_unpack(MultipleConsumerReport_pack(r)))

FixedFunctionReport_round_trip ==
    /\ Fresh
    /\ \E r \in FixedFunctionReports :
          RoundTrip("FixedFunctionReport", r, FixedFunctionReport_pack(r),
                    FixedFunctionReport_unpack(FixedFunctionReport_pack(r)))

\* what the inner read_report(data) can do with the one-byte buffer: fail
\* with a transport error, or read n <= 1 bytes into it
ReadErrors == {"WouldBlock", "BufferOverflow", "InvalidState"}
ReadOutcomes ==
    {[ok |-> FALSE, n |-> 0, byte |-> 0, err |-> e] : e \in ReadErrors}
    \cup {[ok |-> TRUE, n |-> 1, byte |-> b, err |-> ""] : b \in 0..(U8 - 1)}
    \cup {[ok |-> TRUE, n |-> 0, byte |-> 0, err |-> ""]}

\* let data = &mut [0], as the inner read leaves it
ReadBuffer(o) == IF o.ok /\ o.n = 1 THEN << o.byte >> ELSE << 0 >>

\* the match in BootKeyboardInterface::read_report
BootKeyboardInterface_read_report_result(o) ==
    IF ~o.ok THEN [ok |-> FALSE, value |-> <<>>, err |-> o.err]
    ELSE LET r == KeyboardLedsReport_unpack(ReadBuffer(o)) IN
         IF r.ok THEN r ELSE [ok |-> FALSE, value |-> <<>>, err |-> "ParseError"]

\* BootKeyboardInterface::read_report()
BootKeyboardInterface_read_report ==
    /\ Fresh
    /\ \E o \in ReadOutcomes :
          PureCall("read_report",
                   [arg |-> o, report |-> BootKeyboardInterface_read_report_result(o),
                    bytes |-> ReadBuffer(o)])

\* the report builders and the codec
NextReport ==
    \/ KeyboardLedsReport_round_trip
    \/ BootKeyboardInterface_read_report
    \/ BootMouseReport_round_trip
    \/ WheelMouseReport_round_trip
    \/ FixedFunctionReport_round_trip
    \/ MultipleConsumerReport_round_trip
    \/ BootKeyboardReport_round_trip
    \/ NKROBootKeyboardReport_round_trip
    \/ BootKeyboardReport_new_pack
    \/ NKROBootKeyboardReport_new_pack

SpecReport == Init /\ [][NextReport]_vars

----------------------------------------------------------------------------
(* Properties of the boot keyboard report (checked under SpecReport)       *)

\* the standard keys of an input, in input order
StandardKeys(keys) == SelectSeq(keys, IsStandard)

\* the error-code keys of an input that come before its n-th standard key
RECURSIVE ErrorsBeforeStandard(_, _)
ErrorsBeforeStandard(keys, n) ==
    IF keys = <<>> THEN <<>>
    ELSE IF IsStandard(Head(keys))
         THEN IF n = 1 THEN <<>> ELSE ErrorsBeforeStandard(Tail(keys), n - 1)
         ELSE IF Head(keys) \in ErrorCodes
              THEN << Head(keys) >> \o ErrorsBeforeStandard(Tail(keys), n)
              ELSE ErrorsBeforeStandard(Tail(keys), n)

\* C21 as stated: whenever the input holds more than 6 standard keys, all 6
\* key slots of the report are ErrorRollOver.
C21_RolloverAlwaysErrorRollOver ==
    [][ (last' = "BootKeyboardReport::new" /\ Len(StandardKeys(ret'.arg)) > 6)
        => \A n \in 1..6 : ret'.report.keys[n] = ErrorRollOver
      ]_vars

\* C21 amended: whenever the input holds more than 6 standard keys, all 6 key
\* slots hold one error code and no standard key: the first error-code key of
\* the input if one comes before the seventh standard key, ErrorRollOver
\* otherwise.
C21_RolloverFillsWithErrorCode ==
    [][ (last' = "BootKeyboardReport::new" /\ Len(StandardKeys(ret'.arg)) > 6)
        => LET before == ErrorsBeforeStandard(ret'.arg, 7)
               code == IF before = <<>> THEN ErrorRollOver ELSE before[1]
           IN  /\ \A n \in 1..6 : ret'.report.keys[n] = code
               /\ SubSeq(ret'.bytes, 3, 8) = [n \in 1..6 |-> code]
      ]_vars

\* C21 happens: seven standard keys after a LeftShift gave six ErrorRollOver
C21_SevenKeysRollOver ==
    /\ last = "BootKeyboardReport::new"
    /\ ret.arg = << LeftShift, KeyA, KeyB, KeyA, KeyB, KeyA, KeyB, KeyA >>
    /\ ret.bytes = << 2, 0, 1, 1, 1, 1, 1, 1 >>

\* C22: for an input with at most 6 standard keys and no error-code key,
\* bytes 2..7 of the packed report are the standard keys in input order
\* followed by zeros and byte 1 is 0; modifiers and NoEventIndicated take no
\* slot.
C22_KeySlotsInOrder ==
    [][ (last' = "BootKeyboardReport::new"
         /\ Len(StandardKeys(ret'.arg)) <= 6
         /\ \A n \in 1..Len(ret'.arg) : ret'.arg[n] \notin ErrorCodes)
        => LET std == StandardKeys(ret'.arg) IN
           /\ Len(ret'.bytes) = 8
           /\ ret'.bytes[2] = 0
           /\ SubSeq(ret'.bytes, 3, 8)
                  = std \o [n \in 1..(6 - Len(std)) |-> NoEventIndicated]
      ]_vars

\* C22 happens: six standard keys between a modifier and a NoEventIndicated
\* fill the six slots in input order
C22_SixKeysInOrder ==
    /\ last = "BootKeyboardReport::new"
    /\ ret.arg = << LeftShift, KeyB, KeyA, KeyA, KeyB, KeyB, KeyA >>
    /\ ret.bytes = << 2, 0, 5, 4, 4, 5, 5, 4 >>

\* C23: bit (k - LeftControl) of byte 0 of the packed report is set exactly if
\* the modifier key k is in the input, wherever it stands and whether or not
\* the key slots overflowed.
C23_ModifierByte ==
    [][ last' = "BootKeyboardReport::new"
        => \A k \in Modifiers :
              ((ret'.bytes[1] \div 2^(k - LeftControl)) % 2 = 1)
                  <=> (\E n \in 1..Len(ret'.arg) : ret'.arg[n] = k)
      ]_vars

\* C23 happens: a LeftShift after seven standard keys sets bit 1 of byte 0 of
\* a report whose slots have overflowed
C23_ModifierAfterOverflow ==
    /\ last = "BootKeyboardReport::new"
    /\ ret.arg = << KeyA, KeyB, KeyA, KeyB, KeyA, KeyB, KeyA, LeftShift >>
    /\ ret.bytes = << 2, 0, 1, 1, 1, 1, 1, 1 >>

----------------------------------------------------------------------------
(* Properties of the NKRO keyboard report (checked under SpecReport)       *)

\* the keys marked in an nkro_keys bitmap
BitmapKeys(nkro_keys) ==
    {k \in 0..(17 * 8 - 1) : (nkro_keys[(k \div 8) + 1] \div 2^(k % 8)) % 2 = 1}

\* the keys held in a boot_keys slot array
SlotKeys(boot_keys) == {boot_keys[n] : n \in 1..6} \ {NoEventIndicated}

\* the pressed non-modifier keys of an input
PressedKeys(keys) ==
    {keys[n] : n \in 1..Len(keys)} \ (Modifiers \cup {NoEventIndicated})

BootArrayInOrder(keys) ==
    /\ Len(StandardKeys(keys)) <= 6
    /\ \A n \in 1..Len(keys) : keys[n] \notin ErrorCodes

----------------------------------------------------------------------------
(* Properties of the codec (checked under SpecReport)                      *)

PackedTypes ==
    {"KeyboardLedsReport", "BootKeyboardReport", "NKROBootKeyboardReport",
     "BootMouseReport", "WheelMouseReport", "MultipleConsumerReport",
     "FixedFunctionReport"}

\* C26: for each of the seven packed report types, unpacking the bytes that
\* pack(r) gave succeeds and gives r back.
C26_RoundTrip ==
    [][ last' \in PackedTypes
        => /\ ret'.report.ok
           /\ ret'.report.value = ret'.arg
      ]_vars

\* C26 happens: the wheel mouse report with every signed field at -128 or -1
\* went through the bytes 255, 128, 255, 128, 255 and came back
C26_WheelMouseNegativeRoundTrip ==
    /\ last = "WheelMouseReport"
    /\ ret.arg = [buttons |-> 255, x |-> -128, y |-> -1,
                  vertical_wheel |-> -128, horizontal_wheel |-> -1]
    /\ ret.bytes = << 255, 128, 255, 128, 255 >>
    /\ ret.report.ok /\ ret.report.value = ret.arg

\* the report descriptor that goes with each report type
DescriptorOf(type) ==
    CASE type \in {"BootKeyboardReport", "BootKeyboardReport::new", "KeyboardLedsReport"}
            -> BOOT_KEYBOARD_REPORT_DESCRIPTOR
      [] type \in {"NKROBootKeyboardReport", "NKROBootKeyboardReport::new"}
            -> NKRO_BOOT_KEYBOARD_REPORT_DESCRIPTOR
      [] type = "BootMouseReport" -> BOOT_MOUSE_REPORT_DESCRIPTOR
      [] type = "WheelMouseReport" -> WHEEL_MOUSE_REPORT_DESCRIPTOR
      [] type = "MultipleConsumerReport" -> MULTIPLE_CODE_REPORT_DESCRIPTOR
      [] type = "FixedFunctionReport" -> FIXED_FUNCTION_REPORT_DESCRIPTOR

\* C27: every encoded input report is as long as the input report its
\* interface's report descriptor declares (boot keyboard 8, NKRO keyboard 25,
\* boot mouse 3, wheel mouse 5, multiple-code consumer 8, fixed-function
\* consumer 1), and the encoded keyboard LED report is as long as the output
\* report the keyboard descriptors declare (1).
C27_EncodedSizeMatchesDescriptor ==
    [][ last' \in PackedTypes \cup {"BootKeyboardReport::new", "NKROBootKeyboardReport::new"}
        => LET declared == DeclaredLengths(DescriptorOf(last')) IN
           /\ declared.input_rest = 0 /\ declared.output_rest = 0
           /\ IF last' = "KeyboardLedsReport"
              THEN /\ Len(ret'.bytes) = declared.output
                   /\ Len(ret'.bytes) = 1
                   /\ DeclaredLengths(NKRO_BOOT_KEYBOARD_REPORT_DESCRIPTOR).output = 1
              ELSE /\ Len(ret'.bytes) = declared.input
                   /\ Len(ret'.bytes) =
                         CASE last' \in {"BootKeyboardReport", "BootKeyboardReport::new"} -> 8
                           [] last' \in {"NKROBootKeyboardReport",
                                         "NKROBootKeyboardReport::new"} -> 25
                           [] last' = "BootMouseReport" -> 3
                           [] last' = "WheelMouseReport" -> 5
                           [] last' = "MultipleConsumerReport" -> 8
                           [] last' = "FixedFunctionReport" -> 1
      ]_vars

\* C27 happens: an NKRO report of an overflowing key sequence is 25 bytes
\* long, as the 200 input bits of its descriptor say
C27_NkroReportIs25Bytes ==
    /\ last = "NKROBootKeyboardReport::new"
    /\ Len(ret.arg) = 7
    /\ Len(ret.bytes) = 25
    /\ DeclaredLengths(NKRO_BOOT_KEYBOARD_REPORT_DESCRIPTOR).input = 25

----------------------------------------------------------------------------
(* Properties of a failing encoder (checked under SpecPack)                *)

\* a write_report has returned before any endpoint write: its pack() failed
PackFailed == last' = "write_report" /\ ret'.attempts = 0

\* C28: whenever packing a report fails inside write_report of the mouse, the
\* wheel mouse, the consumer control or the fixed-function consumer control,
\* the call returns SerializationError and nothing is written to the endpoint.
C28_PackFailureIsSerializationError ==
    [][ PackFailed
        => /\ ~ret'.ok
           /\ ret'.err = "SerializationError"
           /\ in_ep' = in_ep
      ]_vars

\* C28 in the code: a failed pack() writes nothing to the endpoint, the mouse
\* writers return UsbHidError::SerializationError, and the two consumer
\* control writers return UsbError::ParseError
C28_PackFailureAsCoded ==
    [][ PackFailed
        => /\ ~ret'.ok
           /\ in_ep' = in_ep
           /\ ret'.iface = MOUSE_ID
                => ret'.kind = "UsbHidError" /\ ret'.err = "SerializationError"
           /\ ret'.iface = CONSUMER_ID
                => ret'.kind = "UsbError" /\ ret'.err = "ParseError"
      ]_vars

\* C28 happens: the consumer control's write_report of a report whose pack()
\* failed has returned ParseError while a packet was waiting in its endpoint
C28_ConsumerPackFailureIsParseError ==
    /\ last = "write_report"
    /\ ret.iface = CONSUMER_ID
    /\ ret.attempts = 0
    /\ ret.err = "ParseError"
    /\ in_ep[CONSUMER_ID] # <<>>

----------------------------------------------------------------------------
(* Properties of the keyboard's LED report (checked under SpecReport)      *)

\* C29: when the inner read succeeds, read_report yields the LED flags of the
\* byte b in the buffer: num_lock, caps_lock, scroll_lock, compose and kana are
\* bits 0 to 4 of b, whatever bits 5 to 7 are; a transport error of the inner
\* read is returned unchanged. (A decode failure would be returned as
\* ParseError; the one-byte buffer always decodes.)
C29_LedDecoding ==
    [][ last' = "read_report"
        => LET o == ret'.arg
               b == ret'.bytes[1]
               r == ret'.report
           IN  IF ~o.ok THEN ~r.ok /\ r.err = o.err
               ELSE /\ r.ok
                    /\ b % 32 = Bit(r.value.num_lock, 0) + Bit(r.value.caps_lock, 1)
                                 + Bit(r.value.scroll_lock, 2) + Bit(r.value.compose, 3)
                                 + Bit(r.value.kana, 4)
      ]_vars

\* C29 happens: the byte 0xF2 was read and decoded as caps lock and kana only
C29_CapsLockAndKanaRead ==
    /\ last = "read_report"
    /\ ret.arg.ok /\ ret.bytes = << 242 >>
    /\ ret.report.ok
    /\ ret.report.value = [num_lock |-> FALSE, caps_lock |-> TRUE, scroll_lock |-> FALSE,
                           compose |-> FALSE, kana |-> TRUE]

----------------------------------------------------------------------------
(* Building the class                                                      *)

\* the most add_interface calls made before build
MaxInterfaces == 3

\* the interface number the bus allocator hands out next when build is
\* called: other classes may have taken numbers before
MaxFirstNumber == 1

\* the device interfaces of the crate
InterfaceKinds == {"BootKeyboard", "NKROBootKeyboard", "BootMouse", "ConsumerControl"}

\* the configurations handed to add_interface, in call order
AddSequences == UNION {[1..n -> InterfaceKinds] : n \in 1..MaxInterfaces}

\* UsbHidClassBuilder::new(): HNil
UsbHidClassBuilder_new == <<>>

\* variant of add_interface: the new configuration takes the list's place
add_interface_replacing(interface_list, interface_config) == << interface_config >>

\* UsbHidClassBuilder::add_interface: interface_list.prepend(interface_config)
add_interface(interface_list, interface_config) ==
    << interface_config >> \o interface_list

\* the builder after add_interface was called with each of confs in turn;
\* `added` tells the calls apart
RECURSIVE AddAll(_, _, _)
AddAll(interface_list, confs, k) ==
    IF k > Len(confs) THEN interface_list
    ELSE AddAll(add_interface(interface_list, [kind |-> confs[k], added |-> k]),
                confs, k + 1)

\* HCons::allocate: the head is allocated, then the tail, each taking the
\* next interface number of the bus allocator
RECURSIVE allocate(_, _)
allocate(interface_list, number) ==
    IF interface_list = <<>> THEN <<>>
    ELSE << [config |-> Head(interface_list), id |-> number] >>
         \o allocate(Tail(interface_list), number + 1)

\* InterfaceHList::get_id(id): the first interface of the list whose id() is
\* id, as a sequence of at most one interface
RECURSIVE get_id(_, _)
get_id(interfaces, id) ==
    IF interfaces = <<>> THEN <<>>
    ELSE IF Head(interfaces).id = id THEN << Head(interfaces) >>
    ELSE get_id(Tail(interfaces), id)

\* UsbHidClassBuilder::build after the add_interface calls
build ==
    /\ Fresh
    /\ \E confs \in AddSequences, number \in 0..MaxFirstNumber :
          PureCall("build",
                   [arg |-> confs, first |-> number,
                    interfaces |-> allocate(AddAll(UsbHidClassBuilder_new, confs, 1),
                                            number)])

\* the firmware builds the class
NextBuild ==
    \/ build

SpecBuild == Init /\ [][NextBuild]_vars

----------------------------------------------------------------------------
(* Properties of the build (checked under SpecBuild)                       *)

\* C30: build allocates every interface added through add_interface exactly
\* once; the interface numbers are distinct and sequential from the
\* allocator's next number, in the order of the list the add_interface calls
\* have built (the interface added last comes first); a lookup by id n gives
\* the interface whose id is n and no other, and nothing for any other n.
C30_InterfaceNumbering ==
    [][ last' = "build"
        => LET confs == ret'.arg
               n == Len(confs)
               first == ret'.first
               ifs == ret'.interfaces
           IN  /\ Len(ifs) = n
               /\ \A k \in 1..n :
                     Cardinality({p \in 1..n :
                         ifs[p].config = [kind |-> confs[k], added |-> k]}) = 1
               /\ \A p, q \in 1..n : p # q => ifs[p].id # ifs[q].id
               /\ {ifs[p].id : p \in 1..n} = first..(first + n - 1)
               /\ \A p \in 1..n :
                     /\ ifs[p].config.added = n + 1 - p
                     /\ ifs[p].id = first + p - 1
               /\ \A id \in 0..(MaxFirstNumber + MaxInterfaces) :
                     IF id \in first..(first + n - 1)
                     THEN /\ Len(get_id(ifs, id)) = 1
                          /\ get_id(ifs, id)[1].id = id
                          /\ get_id(ifs, id)[1] = ifs[id - first + 1]
                     ELSE get_id(ifs, id) = <<>>
      ]_vars

\* C30 happens: a consumer control, a mouse and a keyboard were added in that
\* order with interface number 1 free next; the keyboard got 1, the mouse 2
\* and the consumer control 3, and the lookup of 2 gave the mouse
C30_ThreeInterfacesNumbered ==
    /\ last = "build"
    /\ ret.arg = << "ConsumerControl", "BootMouse", "BootKeyboard" >>
    /\ ret.first = 1
    /\ ret.interfaces = << [config |-> [kind |-> "BootKeyboard", added |-> 3], id |-> 1],
                           [config |-> [kind |-> "BootMouse", added |-> 2], id |-> 2],
                           [config |-> [kind |-> "ConsumerControl", added |-> 1], id |-> 3] >>
    /\ get_id(ret.interfaces, 2)[1].config.kind = "BootMouse"

----------------------------------------------------------------------------
(* Byte layout of the mouse and consumer reports (checked under SpecReport) *)

\* the byte that is congruent to v modulo 256
TwosComplement(v) == CHOOSE b \in 0..255 : \E q \in -1..0 : b = v - 256 * q

\* C31: a boot mouse report encodes to the bytes buttons, x, y and a wheel
\* mouse report to buttons, x, y, vertical_wheel, horizontal_wheel, in that
\* order, each signed field as its two's-complement byte.
C31_MouseReportBytes ==
    [][ /\ last' = "BootMouseReport"
           => ret'.bytes = << ret'.arg.buttons, TwosComplement(ret'.arg.x),
                              TwosComplement(ret'.arg.y) >>
        /\ last' = "WheelMouseReport"
           => ret'.bytes = << ret'.arg.buttons, TwosComplement(ret'.arg.x),
                              TwosComplement(ret'.arg.y),
                              TwosComplement(ret'.arg.vertical_wheel),
                              TwosComplement(ret'.arg.horizontal_wheel) >>
      ]_vars

\* C31 happens: the boot mouse report with buttons 7, x = -128 and y = -1 was
\* encoded as 7, 128, 255
C31_BootMouseNegativeBytes ==
    /\ last = "BootMouseReport"
    /\ ret.arg = [buttons |-> 7, x |-> -128, y |-> -1]
    /\ ret.bytes = << 7, 128, 255 >>

\* C32: a multiple-code consumer report encodes to 8 bytes, the four codes in
\* array order and each code low byte first; a fixed-function consumer report
\* encodes to 1 byte whose bits 0..6 are next, previous, stop, play_pause,
\* mute, volume_increment, volume_decrement and whose bit 7 is 0.
C32_ConsumerReportBytes ==
    [][ /\ last' = "MultipleConsumerReport"
           => /\ Len(ret'.bytes) = 8
              /\ \A n \in 1..4 :
                    /\ ret'.bytes[2 * n - 1] \in 0..255
                    /\ ret'.bytes[2 * n] \in 0..255
                    /\ ret'.bytes[2 * n - 1] + 256 * ret'.bytes[2 * n] = ret'.arg.codes[n]
        /\ last' = "FixedFunctionReport"
           => LET b == ret'.bytes[1]
                  r == ret'.arg
                  flags == << r.next, r.previous, r.stop, r.play_pause, r.mute,
                              r.volume_increment, r.volume_decrement >>
              IN  /\ Len(ret'.bytes) = 1
                  /\ b \in 0..127
                  /\ \A n \in 0..6 : flags[n + 1] <=> ((b \div 2^n) % 2 = 1)
      ]_vars

\* C32 happens: the codes 0x0299, 0x01AB, 0, 0x029C were encoded as
\* 99 02 AB 01 00 00 9C 02
C32_ConsumerCodesLittleEndian ==
    /\ last = "MultipleConsumerReport"
    /\ ret.arg.codes = << 665, 427, 0, 668 >>
    /\ ret.bytes = << 153, 2, 171, 1, 0, 0, 156, 2 >>

----------------------------------------------------------------------------
(* Frame properties of the control dispatcher (checked under Spec)         *)

\* the interface state in which interface N is as in idl / prot and every
\* other interface is as it was built
OnlyIdle(N, idl) ==
    [i \in Ifaces |-> IF i = N THEN idl[i] ELSE [rid \in ReportIds |-> DefaultIdle(i)]]
OnlyProtocol(N, prot) ==
    [i \in Ifaces |-> IF i = N THEN prot[i] ELSE "Report"]

\* what the handler of the transfer in flight does in the given interface state
HandlerOutcome(request, env, idl, prot) ==
    IF request.direction = "Out" THEN ControlOutOutcome(request, env, idl, prot)
    ELSE ControlInOutcome(request, env, idl, prot)

\* C33: a control_out or control_in transfer with index N leaves the idle
\* table and the protocol mode of every interface M # N and every cached
\* report as they were, and what it calls and answers is what it would call
\* and answer if every interface but N were in its initial state.
C33_InterfaceIsolation ==
    [][ last' \in {"control_out", "control_in"}
        => LET N == xfer.req.index
               alone == HandlerOutcome(xfer.req, xfer.env, OnlyIdle(N, idle),
                                       OnlyProtocol(N, protocol))
           IN  /\ \A M \in Ifaces :
                     M # N => idle'[M] = idle[M] /\ protocol'[M] = protocol[M]
               /\ last_report' = last_report
               /\ xfer'.status = alone.status
               /\ xfer'.reply = alone.reply
               /\ xfer'.calls = alone.calls
               /\ N \in Ifaces => idle'[N] = alone.idle[N] /\ protocol'[N] = alone.protocol[N]
      ]_vars

\* C33 happens: after the host set the mouse's idle rate to 1 and its protocol
\* to Boot, a GetIdle of the keyboard's report 0 was answered with the
\* keyboard's own rate 125
C33_KeyboardAnswerUntouchedByMouse ==
    /\ last = "control_in"
    /\ ClassToInterface(xfer.req, GET_IDLE)
    /\ xfer.req.index = KEYBOARD_ID
    /\ xfer.req.value = 0
    /\ idle[MOUSE_ID][0] = 1
    /\ protocol[MOUSE_ID] = "Boot"
    /\ xfer.status = "accepted"
    /\ xfer.reply = << 125 >>

\* C34: no control_in transfer changes an idle-rate table or a protocol mode;
\* a Standard GET_DESCRIPTOR, a GetIdle and a GetProtocol change no interface
\* state at all and call nothing on the interface but the getter they are for.
C34_ControlInReadOnly ==
    [][ last' = "control_in"
        => /\ idle' = idle
           /\ protocol' = protocol
           /\ (\/ xfer.req.request_type = "Standard"
               \/ ClassToInterface(xfer.req, GET_IDLE)
               \/ ClassToInterface(xfer.req, GET_PROTOCOL))
              => /\ ifaceState' = ifaceState
                 /\ ~panicked'
                 /\ xfer'.calls \in {<<>>, <<"report_descriptor", "accept_with">>,
                                     <<"hid_descriptor_body", "accept_with">>,
                                     <<"get_idle", "accept_with">>,
                                     <<"get_protocol", "accept_with">>}
      ]_vars

\* C34 happens: a GetIdle of the keyboard was answered with the rate 1 the
\* host had set, and the rate is still 1 afterwards
C34_GetIdleKeepsRate ==
    /\ last = "control_in"
    /\ ClassToInterface(xfer.req, GET_IDLE)
    /\ xfer.req.index = KEYBOARD_ID
    /\ xfer.req.value = 0
    /\ xfer.reply = << 1 >>
    /\ idle[KEYBOARD_ID][0] = 1
    /\ protocol[KEYBOARD_ID] = "Boot"

\* lengths a host may put in a request that carries no data or one byte
AnyLengths == {0, 1, 2, 64}

\* C38: the length field of a SetIdle, SetProtocol, GetIdle or GetProtocol
\* does not change the outcome: the handler does with the request what it
\* would do with the same request of any other length; a SetIdle to a
\* registered interface is acknowledged and sets the rate whatever its
\* length, and a GetIdle or GetProtocol to one is answered with one byte
\* whatever its length.
C38_LengthIsAdvisory ==
    [][ /\ last' \in {"control_out", "control_in"}
        /\ \E code \in {SET_IDLE, SET_PROTOCOL, GET_IDLE, GET_PROTOCOL} :
               ClassToInterface(xfer.req, code)
        => LET r == xfer.req IN
           /\ \A l \in AnyLengths :
                 LET o == HandlerOutcome([r EXCEPT !.length = l], xfer.env, idle, protocol)
                 IN  /\ idle' = o.idle
                     /\ protocol' = o.protocol
                     /\ xfer'.status = o.status
                     /\ xfer'.reply = o.reply
           /\ (last' = "control_out" /\ r.request = SET_IDLE /\ r.index \in Ifaces)
                 => /\ xfer'.status = "accepted"
                    /\ idle'[r.index][r.value % 256] = r.value \div 256
           /\ (last' = "control_in" /\ r.request \in {GET_IDLE, GET_PROTOCOL}
                                    /\ r.index \in Ifaces)
                 => /\ xfer'.status = "accepted"
                    /\ Len(xfer'.reply) = 1
      ]_vars

\* C38 happens: a GetProtocol of the mouse with length 0 was answered with
\* the byte 0 (Boot)
C38_GetProtocolLengthZeroAnswered ==
    /\ last = "control_in"
    /\ ClassToInterface(xfer.req, GET_PROTOCOL)
    /\ xfer.req.index = MOUSE_ID
    /\ xfer.req.length = 0
    /\ xfer.status = "accepted"
    /\ xfer.reply = << 0 >>

----------------------------------------------------------------------------
(* More properties of the keyboard reports (checked under SpecReport)      *)

\* the six key slots of a built report
Slots(fn, report) ==
    IF fn = "BootKeyboardReport::new" THEN report.keys ELSE report.boot_keys

\* the place in the input where the slots turn to an error code: the first
\* error-code key or the seventh standard key, whichever comes first; 0 if
\* there is none
ErrorPlace(keys) ==
    LET places == {e \in 1..Len(keys) :
                      \/ keys[e] \in ErrorCodes
                      \/ /\ IsStandard(keys[e])
                         /\ Len(StandardKeys(SubSeq(keys, 1, e))) = 7}
    IN  IF places = {} THEN 0
        ELSE CHOOSE e \in places : \A f \in places : e <= f

\* C35: in both builders, the first error-code key met before any overflow
\* fills all six slots with its code; once the slots hold an error code, from
\* such a key or from overflow, no later key changes them: the report's slots
\* are those the input gives when cut after that place; a modifier key sets
\* its flag wherever it stands.
C35_ErrorCodeKeys ==
    [][ last' \in {"BootKeyboardReport::new", "NKROBootKeyboardReport::new"}
        => LET keys == ret'.arg
               e == ErrorPlace(keys)
               slots == Slots(last', ret'.report)
           IN  /\ e > 0
                   => /\ slots = [n \in 1..6 |->
                                    IF keys[e] \in ErrorCodes THEN keys[e]
                                    ELSE ErrorRollOver]
                      /\ slots = IF last' = "BootKeyboardReport::new"
                                 THEN BootKeyboardReport_new(SubSeq(keys, 1, e)).keys
                                 ELSE NKROBootKeyboardReport_new(SubSeq(keys, 1, e)).boot_keys
               /\ \A k \in Modifiers :
                     ((ret'.bytes[1] \div 2^(k - LeftControl)) % 2 = 1)
                         <=> (\E n \in 1..Len(keys) : keys[n] = k)
      ]_vars

\* C35 happens: POSTFail, then ErrorUndefine, then LeftShift give six POSTFail
\* slots and the LeftShift flag
C35_SecondErrorCodeIgnored ==
    /\ last = "BootKeyboardReport::new"
    /\ ret.arg = << POSTFail, ErrorUndefine, LeftShift >>
    /\ ret.bytes = << 2, 0, 2, 2, 2, 2, 2, 2 >>

\* C36: for every input, the eight modifier flags and the six boot_keys of
\* NKROBootKeyboardReport::new(keys) are the flags and keys of
\* BootKeyboardReport::new(keys), and bytes 0..7 of the packed NKRO report
\* are the packed boot report.
C36_NkroBootCompatible ==
    [][ last' = "NKROBootKeyboardReport::new"
        => LET boot == BootKeyboardReport_new(ret'.arg)
               nkro == ret'.report
           IN  /\ nkro.boot_keys = boot.keys
               /\ << nkro.left_ctrl, nkro.left_shift, nkro.left_alt, nkro.left_gui,
                      nkro.right_ctrl, nkro.right_shift, nkro.right_alt, nkro.right_gui >>
                    = << boot.left_ctrl, boot.left_shift, boot.left_alt, boot.left_gui,
                         boot.right_ctrl, boot.right_shift, boot.right_alt,
                         boot.right_gui >>
               /\ SubSeq(ret'.bytes, 1, 8) = BootKeyboardReport_pack(boot)
      ]_vars

\* C36 happens: RightGUI, B, A give an NKRO report that starts with the boot
\* report 80 00 05 04 00 00 00 00
C36_NkroStartsWithBootReport ==
    /\ last = "NKROBootKeyboardReport::new"
    /\ ret.arg = << RightGUI, KeyB, KeyA >>
    /\ SubSeq(ret.bytes, 1, 8) = << 128, 0, 5, 4, 0, 0, 0, 0 >>
    /\ BootKeyboardReport_pack(BootKeyboardReport_new(ret.arg)) = SubSeq(ret.bytes, 1, 8)

\* C37: bit b of nkro_keys[n] is set exactly if the input holds a key k that
\* is no modifier and not 0, with k < 136, k div 8 = n and k mod 8 = b; a key
\* k >= 136 sets no bit, and the bitmap stays 17 bytes long.
C37_BitmapBitPositions ==
    [][ last' = "NKROBootKeyboardReport::new"
        => LET keys == ret'.arg
               nkro_keys == ret'.report.nkro_keys
           IN  /\ Len(nkro_keys) = 17
               /\ \A n \in 0..16 :
                     /\ nkro_keys[n + 1] \in 0..255
                     /\ \A b \in 0..7 :
                           ((nkro_keys[n + 1] \div 2^b) % 2 = 1)
                           <=> \E p \in 1..Len(keys) :
                                  /\ keys[p] \notin Modifiers
                                  /\ keys[p] # 0
                                  /\ keys[p] < 136
                                  /\ keys[p] \div 8 = n
                                  /\ keys[p] % 8 = b
      ]_vars

\* C37 happens: the keys 135, 136 and A set bit 7 of nkro_keys[16] and bit 4
\* of nkro_keys[0], and 136 set nothing
C37_LastBitOfBitmap ==
    /\ last = "NKROBootKeyboardReport::new"
    /\ ret.arg = << International1, International2, KeyA >>
    /\ ret.report.nkro_keys = [n \in 1..17 |-> IF n = 1 THEN 16
                                                ELSE IF n = 17 THEN 128 ELSE 0]

----------------------------------------------------------------------------
(* Endpoint packet sizes (checked under SpecReport)                        *)

\* variant of InPacketSize: every IN endpoint is configured with Bytes8
InPacketSizeBytes8(type) == Bytes8

\* in_endpoint(size, ..) of the default_config of the interface that sends
\* the report type
InPacketSize(type) ==
    IF type \in {"NKROBootKeyboardReport", "NKROBootKeyboardReport::new"}
    THEN Bytes32 ELSE Bytes8

\* with_out_endpoint(size, ..) of the keyboards' default_config
KeyboardOutPacketSize == Bytes8

\* C39: every encoded input report is at most as long as the IN endpoint's
\* max packet size of its interface's default_config (boot keyboard 8 <= 8,
\* NKRO keyboard 25 <= 32, boot mouse 3 <= 8, wheel mouse 5 <= 8, consumer
\* 8 <= 8, fixed-function consumer 1 <= 8), and the LED report is at most as
\* long as the keyboards' OUT packet size 8.
C39_ReportsFitOnePacket ==
    [][ last' \in PackedTypes \cup {"BootKeyboardReport::new", "NKROBootKeyboardReport::new"}
        => IF last' = "KeyboardLedsReport"
           THEN Len(ret'.bytes) <= KeyboardOutPacketSize /\ KeyboardOutPacketSize = 8
           ELSE /\ Len(ret'.bytes) <= InPacketSize(last')
                /\ InPacketSize(last') =
                      IF last' \in {"NKROBootKeyboardReport",
                                    "NKROBootKeyboardReport::new"} THEN 32 ELSE 8
      ]_vars

\* C39 happens: a boot keyboard report and a consumer report fill their
\* 8-byte packets, here the consumer report
C39_ConsumerReportFillsPacket ==
    /\ last = "MultipleConsumerReport"
    /\ Len(ret.bytes) = 8
    /\ InPacketSize(last) = 8

=============================================================================
